---------------------------- MODULE Spec2Model ----------------------------
(***************************************************************************)
(* Brokerage ledger of src/output: accounts, holdings, the funds service   *)
(* (deposit / withdraw), the trading service (buy_shares / sell_shares),   *)
(* the price service with its TTL cache and the two transaction stores.    *)
(*                                                                         *)
(* Money is counted in cents (Decimal('1.00') is 100).  An average cost    *)
(* basis is an exact fraction [n, d] in lowest terms: Decimal division is  *)
(* carried to 28 significant digits in the code, the fraction is its       *)
(* value before that last rounding.  Time is counted in minutes.           *)
(* An Optional value is a sequence of length at most one.                  *)
(***************************************************************************)
EXTENDS Integers, Sequences, FiniteSets, TLC

VARIABLES
    accounts,            \* AppState.accounts: account_id -> Account
    holdings,            \* HoldingsRepository.holdings: account_id -> symbol -> Holding
    funds_transactions,  \* FundsService.transactions
    repo_transactions,   \* TransactionsRepository.transactions
    cache,               \* PriceService._cache: symbol -> (price, timestamp)
    next_id,             \* the next fresh uuid4 of a Transaction
    now,                 \* the wall clock, in minutes
    call,                \* the last call: its arguments, outcome and the ledger before it
    nmut,                \* number of calls so far that changed the ledger
    nok,                 \* number of funds and trading calls so far that returned
    objects,             \* Transaction objects constructed outside the services, and
                         \* the attempts that raised, in the order they were made
    in_flight,           \* per thread, the call it has validated and not yet executed
    session              \* AppState.users, user_accounts, current_user, current_account

vars == <<accounts, holdings, funds_transactions, repo_transactions, cache,
          next_id, now, call, nmut, nok, objects, in_flight, session>>

---------------------------------------------------------------------------
(* Bounds of the exploration *)

MaxMutations == 3
MaxTime == 5
MaxObjects == 3

(* Inputs the calls are tried with *)
DepositAmounts == {99, 100, 14500, 100000000, 100000001}
WithdrawAmounts == {0, 1, 14500, 100000000, 100000001}
InputSymbols == {"AAPL", "TSLA", "MSFT"}
Quantities == {-1, 0, 1, 2}
TickSteps == {5}

---------------------------------------------------------------------------
(* config.py *)

SUPPORTED_SYMBOLS == {"AAPL", "TSLA", "GOOGL"}
MIN_DEPOSIT_AMOUNT == 100
MAX_DEPOSIT_AMOUNT == 100000000
MIN_WITHDRAWAL_AMOUNT == 1
WITHDRAWAL_LIMIT == 100000000
PRICE_CACHE_TTL_MINUTES == 5
SIMULATED_PRICES == [s \in SUPPORTED_SYMBOLS |->
                        CASE s = "AAPL" -> 14500
                          [] s = "TSLA" -> 65000
                          [] s = "GOOGL" -> 280000]

---------------------------------------------------------------------------
(* Optional values and exact fractions *)

None == <<>>
Some(x) == <<x>>

\* an empty dict
EmptyMap == [k \in {} |-> 0]

Abs(x) == IF x < 0 THEN -x ELSE x

RECURSIVE Gcd(_, _)
Gcd(a, b) == IF b = 0 THEN a ELSE Gcd(b, a % b)

Frac(n, d) == LET g == Gcd(Abs(n), Abs(d))
              IN  IF g = 0 THEN [n |-> 0, d |-> 1] ELSE [n |-> n \div g, d |-> d \div g]
FracOfInt(k) == [n |-> k, d |-> 1]
FracAdd(x, y) == Frac(x.n * y.d + y.n * x.d, x.d * y.d)
FracTimesInt(x, k) == Frac(x.n * k, x.d)
FracDivInt(x, k) == Frac(x.n, x.d * k)

---------------------------------------------------------------------------
(* account_core.py: Account *)

\* mutant: a new account starts with a welcome credit of 1.00
Account_credited(account_id) ==
    [account_id |-> account_id, cash_balance |-> 100,
     total_deposits |-> 0, total_withdrawals |-> 0]

\* Account.__init__ with the default balances
Account(account_id) ==
    [account_id |-> account_id, cash_balance |-> 0,
     total_deposits |-> 0, total_withdrawals |-> 0]

\* Account.validate
validate_account(account) == account.cash_balance >= 0

\* mutant: update_balance assigns without the negative-balance check
update_balance_unchecked(account, amount) == TRUE

\* mutant: update_balance also refuses a new balance of exactly zero
update_balance_ok_positive(account, amount) == account.cash_balance + amount > 0

\* Account.update_balance: the guard that decides between raising and assigning
update_balance_ok(account, amount) == ~(account.cash_balance + amount < 0)

\* Account.update_balance: the assignment
update_balance(account, amount) ==
    [account EXCEPT !.cash_balance = account.cash_balance + amount]

---------------------------------------------------------------------------
(* transaction_core.py: Transaction *)

Transaction(id, account_id, type, total_amount, at, symbol, quantity, price_per_share, status, failure_reason) ==
    [transaction_id |-> id, account_id |-> account_id, transaction_type |-> type,
     total_amount |-> total_amount, transaction_timestamp |-> at,
     symbol |-> symbol, quantity |-> quantity, price_per_share |-> price_per_share,
     status |-> status, failure_reason |-> failure_reason]

\* mutant: __post_init__ lets a FAILED record through unchecked
post_init_ok_audit_exempt(txn) ==
    \/ txn.status = "FAILED"
    \/ /\ ~(txn.transaction_type \in {"BUY", "SELL"} /\ txn.symbol = None)
       /\ ~(txn.transaction_type \in {"BUY", "SELL"} /\ txn.quantity = None)
       /\ ~(txn.total_amount <= 0)

\* Transaction.__post_init__: TRUE when construction does not raise
post_init_ok(txn) ==
    /\ ~(txn.transaction_type \in {"BUY", "SELL"} /\ txn.symbol = None)
    /\ ~(txn.transaction_type \in {"BUY", "SELL"} /\ txn.quantity = None)
    /\ ~(txn.total_amount <= 0)

\* Transaction(...): the dataclass constructor with the fields of payload p,
\* a fresh transaction_id and the current time; None when __post_init__ raises
construct(id, p, at) ==
    LET txn == Transaction(id, p.account_id, p.transaction_type, p.total_amount,
                           at, p.symbol, p.quantity, p.price_per_share,
                           p.status, p.failure_reason)
    IN  IF post_init_ok(txn) THEN Some(txn) ELSE None

\* Transaction._replace_status: a new Transaction from the fields it copies
replace_status(id, txn, new_status, reason, at) ==
    construct(id, [account_id |-> txn.account_id,
                   transaction_type |-> txn.transaction_type,
                   total_amount |-> txn.total_amount,
                   symbol |-> txn.symbol, quantity |-> txn.quantity,
                   price_per_share |-> txn.price_per_share,
                   status |-> new_status, failure_reason |-> reason], at)

\* Transaction.mark_as_completed
mark_as_completed(id, txn, at) == replace_status(id, txn, "COMPLETED", None, at)

\* Transaction.mark_as_failed
mark_as_failed(id, txn, reason, at) ==
    replace_status(id, txn, "FAILED", Some(reason), at)

---------------------------------------------------------------------------
(* transaction_factory.py: TransactionFactory *)

\* TransactionFactory.create_failed_transaction
create_failed_transaction(id, p, failure_reason, at) ==
    construct(id, [p EXCEPT !.status = "FAILED",
                            !.failure_reason = Some(failure_reason)], at)

---------------------------------------------------------------------------
(* The ledger as one value, and the result of a call on it *)

\* price_lookups lists the values PriceService.get_price returned to the call
\* in progress, one per call of get_price; it is empty when a call starts
Ledger ==
    [accounts |-> accounts, holdings |-> holdings,
     funds_transactions |-> funds_transactions,
     repo_transactions |-> repo_transactions,
     cache |-> cache, next_id |-> next_id, price_lookups |-> <<>>,
     session |-> session]

Result(l, outcome, ret) == [ledger |-> l, outcome |-> outcome, ret |-> ret]

---------------------------------------------------------------------------
(* funds_management.py: FundsValidator *)

\* mutant: _validate_amount rejects the two ends of the range
validate_amount_exclusive(amount, min_amount, max_amount) ==
    ~(amount <= min_amount \/ amount >= max_amount)

\* FundsValidator._validate_amount: TRUE when it does not raise
validate_amount(amount, min_amount, max_amount) ==
    ~(amount < min_amount \/ amount > max_amount)

\* mutant: _validate_balance is skipped
validate_balance_skipped(account, amount) == TRUE

\* mutant: _validate_balance rejects a withdrawal of the whole balance
validate_balance_strict(account, amount) == ~(account.cash_balance <= amount)

\* FundsValidator._validate_balance: TRUE when it does not raise
validate_balance(account, amount) == ~(account.cash_balance < amount)

\* FundsValidator.validate_deposit: "ok" or the error raised
validate_deposit(account, amount) ==
    IF validate_amount(amount, MIN_DEPOSIT_AMOUNT, MAX_DEPOSIT_AMOUNT)
    THEN "ok" ELSE "range"

\* mutant: validate_withdrawal checks the balance before the range
validate_withdrawal_balance_first(account, amount) ==
    IF ~validate_balance(account, amount) THEN "insufficient_funds"
    ELSE IF ~validate_amount(amount, MIN_WITHDRAWAL_AMOUNT, WITHDRAWAL_LIMIT)
    THEN "range"
    ELSE "ok"

\* FundsValidator.validate_withdrawal: "ok" or the first error raised
validate_withdrawal(account, amount) ==
    IF ~validate_amount(amount, MIN_WITHDRAWAL_AMOUNT, WITHDRAWAL_LIMIT)
    THEN "range"
    ELSE IF ~validate_balance(account, amount) THEN "insufficient_funds"
    ELSE "ok"

---------------------------------------------------------------------------
(* funds_management.py: FundsService *)

\* mutant: _create_transaction returns a fresh uuid instead of the record's
create_transaction_other_id(l, a, type, amount, at) ==
    LET txn == Transaction(l.next_id, a, type, amount, at, None, None, None,
                           "COMPLETED", None)
    IN  IF ~post_init_ok(txn)
        THEN Result(l, "TransactionException", None)
        ELSE Result([l EXCEPT !.funds_transactions = Append(@, txn),
                              !.next_id = @ + 2],
                    "ok", Some(txn.transaction_id + 1))

\* mutant: _create_transaction leaves the record at the default status PENDING
create_transaction_pending(l, a, type, amount, at) ==
    LET txn == Transaction(l.next_id, a, type, amount, at, None, None, None,
                           "PENDING", None)
    IN  IF ~post_init_ok(txn)
        THEN Result(l, "TransactionException", None)
        ELSE Result([l EXCEPT !.funds_transactions = Append(@, txn),
                              !.next_id = @ + 1],
                    "ok", Some(txn.transaction_id))

\* FundsService._create_transaction
create_transaction(l, a, type, amount, at) ==
    LET txn == Transaction(l.next_id, a, type, amount, at, None, None, None,
                           "COMPLETED", None)
    IN  IF ~post_init_ok(txn)
        THEN Result(l, "TransactionException", None)
        ELSE Result([l EXCEPT !.funds_transactions = Append(@, txn),
                              !.next_id = @ + 1],
                    "ok", Some(txn.transaction_id))

\* mutant: deposit adds to total_deposits before it validates the amount
deposit_counts_rejected(l, a, amount, at) ==
    LET v == validate_deposit(l.accounts[a], amount)
        l1 == [l EXCEPT !.accounts[a].total_deposits = @ + amount]
    IN  IF v # "ok" THEN Result(l1, v, None)
        ELSE create_transaction(
                 [l1 EXCEPT !.accounts[a].cash_balance = @ + amount],
                 a, "DEPOSIT", amount, at)

\* FundsService.deposit, the try block that follows the validation
deposit_execute(l, a, amount, at) ==
    create_transaction(
        [l EXCEPT !.accounts[a].cash_balance = @ + amount,
                  !.accounts[a].total_deposits = @ + amount],
        a, "DEPOSIT", amount, at)

\* FundsService.deposit
deposit_result(l, a, amount, at) ==
    LET v == validate_deposit(l.accounts[a], amount)
    IN  IF v # "ok" THEN Result(l, v, None)
        ELSE deposit_execute(l, a, amount, at)

\* FundsService.withdraw, the try block that follows the validation
withdraw_execute(l, a, amount, at) ==
    create_transaction(
        [l EXCEPT !.accounts[a].cash_balance = @ - amount,
                  !.accounts[a].total_withdrawals = @ + amount],
        a, "WITHDRAWAL", amount, at)

\* FundsService.withdraw
withdraw_result(l, a, amount, at) ==
    LET v == validate_withdrawal(l.accounts[a], amount)
    IN  IF v # "ok" THEN Result(l, v, None)
        ELSE withdraw_execute(l, a, amount, at)

\* FundsService.get_transaction_history
funds_history(l, a) == SelectSeq(l.funds_transactions, LAMBDA t: t.account_id = a)

---------------------------------------------------------------------------
(* reporting_and_pricing.py: PriceService *)

\* mutant: is_supported_symbol accepts every symbol
is_supported_symbol_any(symbol) == TRUE

\* PriceService.is_supported_symbol
is_supported_symbol(symbol) == symbol \in SUPPORTED_SYMBOLS

\* mutant: _update_cache replaces the cache by one that holds the new entry only
update_cache_rebuilt(c, symbol, price, at) ==
    [s \in {symbol} |-> [price |-> price, timestamp |-> at]]

\* PriceService._update_cache
update_cache(c, symbol, price, at) ==
    [s \in DOMAIN c \cup {symbol} |->
        IF s = symbol THEN [price |-> price, timestamp |-> at] ELSE c[s]]

\* PriceService._fetch_price: the price fetched and the cache it leaves
fetch_price(c, symbol, at) ==
    LET price == IF symbol \in DOMAIN SIMULATED_PRICES
                 THEN SIMULATED_PRICES[symbol] ELSE 0
    IN  [price |-> price, cache |-> update_cache(c, symbol, price, at)]

\* mutant: an entry whose age equals the TTL still counts as fresh
cache_hit_inclusive(c, symbol, at) ==
    /\ symbol \in DOMAIN c
    /\ at - c[symbol].timestamp <= PRICE_CACHE_TTL_MINUTES

\* PriceService.get_price, the cache-hit test
cache_hit(c, symbol, at) ==
    /\ symbol \in DOMAIN c
    /\ at - c[symbol].timestamp < PRICE_CACHE_TTL_MINUTES

\* PriceService.get_price on a supported symbol: the price returned and the
\* cache it leaves (the unsupported case raises before the cache is read)
get_price(c, symbol, at) ==
    IF cache_hit(c, symbol, at)
    THEN [price |-> c[symbol].price, cache |-> c]
    ELSE fetch_price(c, symbol, at)

\* PriceService.get_price called from outside the trading service: the
\* unsupported-symbol error, or the price and the cache the lookup leaves
get_price_result(l, symbol, at) ==
    IF ~is_supported_symbol(symbol) THEN Result(l, "unsupported_symbol", None)
    ELSE LET p == get_price(l.cache, symbol, at)
         IN  Result([l EXCEPT !.cache = p.cache,
                              !.price_lookups = Append(@, p.price)],
                    "ok", Some(p.price))

---------------------------------------------------------------------------
(* trading_engine.py: Holding *)

Holding(account_id, symbol, quantity, avg_cost_basis, at) ==
    [account_id |-> account_id, symbol |-> symbol, quantity |-> quantity,
     avg_cost_basis |-> avg_cost_basis, last_updated |-> at]

\* Holding.update_average_cost: runs after add_shares has raised the quantity
update_average_cost(h, new_shares, total_cost, at) ==
    [h EXCEPT !.avg_cost_basis = FracDivInt(total_cost, h.quantity + new_shares),
              !.last_updated = at]

\* Holding.add_shares
add_shares(h, quantity, price_per_share, at) ==
    LET total_cost == FracAdd(FracTimesInt(h.avg_cost_basis, h.quantity),
                              FracOfInt(quantity * price_per_share))
    IN  update_average_cost([h EXCEPT !.quantity = h.quantity + quantity],
                            quantity, total_cost, at)

\* Holding.remove_shares: the guard (TRUE when it does not raise)
remove_shares_ok(h, quantity) == ~(quantity > h.quantity)

\* mutant: remove_shares spreads the cost basis over the shares that are left
remove_shares_rebased(h, quantity) ==
    [h EXCEPT !.quantity = h.quantity - quantity,
              !.avg_cost_basis =
                  IF h.quantity - quantity > 0
                  THEN FracDivInt(FracTimesInt(h.avg_cost_basis, h.quantity),
                                  h.quantity - quantity)
                  ELSE h.avg_cost_basis]

\* Holding.remove_shares: the assignment
remove_shares(h, quantity) == [h EXCEPT !.quantity = h.quantity - quantity]

---------------------------------------------------------------------------
(* app_state.py: HoldingsRepository, TransactionsRepository *)

\* HoldingsRepository.find_by_symbol: None or the stored holding
find_by_symbol(hs, account_id, symbol) ==
    IF account_id \in DOMAIN hs /\ symbol \in DOMAIN hs[account_id]
    THEN Some(hs[account_id][symbol]) ELSE None

\* HoldingsRepository.get_all: the stored holdings of the account
get_all(hs, account_id) ==
    IF account_id \in DOMAIN hs
    THEN {hs[account_id][s] : s \in DOMAIN hs[account_id]} ELSE {}

\* mutant: save evicts a holding only below zero shares
save_keeps_nonnegative(holding) == holding.quantity >= 0

\* mutant: save never evicts a holding
save_keeps_always(holding) == TRUE

\* HoldingsRepository.save, the test that keeps a holding in the store
save_keeps(holding) == holding.quantity > 0

\* HoldingsRepository.save
save_holding(hs, holding) ==
    LET a == holding.account_id
        mine == IF a \in DOMAIN hs THEN hs[a] ELSE EmptyMap
        kept == IF save_keeps(holding)
                THEN [s \in DOMAIN mine \cup {holding.symbol} |->
                         IF s = holding.symbol THEN holding ELSE mine[s]]
                ELSE [s \in DOMAIN mine \ {holding.symbol} |-> mine[s]]
    IN  [k \in DOMAIN hs \cup {a} |-> IF k = a THEN kept ELSE hs[k]]

\* mutant: save stores the transaction twice
save_transaction_twice(txns, txn) == Append(Append(txns, txn), txn)

\* TransactionsRepository.save
save_transaction(txns, txn) == Append(txns, txn)

\* mutant: get_by_account returns the records of every account
get_by_account_unfiltered(txns, account_id) == txns

\* TransactionsRepository.get_by_account
get_by_account(txns, account_id) ==
    SelectSeq(txns, LAMBDA t: t.account_id = account_id)

---------------------------------------------------------------------------
(* trading_engine.py: TradingValidator *)

\* mutant: _validate_symbol lets every symbol through
validate_symbol_skipped(symbol) == TRUE

\* TradingValidator._validate_symbol: TRUE when it does not raise
validate_symbol(symbol) == symbol \in {"AAPL", "TSLA", "GOOGL"}

\* mutant: _validate_affordability rejects a cost equal to the balance
validate_affordability_strict(account, price_per_share, quantity) ==
    ~(price_per_share * quantity >= account.cash_balance)

\* TradingValidator._validate_affordability, given the price it fetched:
\* TRUE when it does not raise
validate_affordability(account, price_per_share, quantity) ==
    ~(price_per_share * quantity > account.cash_balance)

\* mutant: _validate_share_availability only looks for the holding
validate_share_availability_any(hs, account_id, symbol, quantity) ==
    find_by_symbol(hs, account_id, symbol) # None

\* TradingValidator._validate_share_availability: TRUE when it does not raise
validate_share_availability(hs, account_id, symbol, quantity) ==
    LET holding == find_by_symbol(hs, account_id, symbol)
    IN  ~(holding = None \/ holding[1].quantity < quantity)

---------------------------------------------------------------------------
(* trading_engine.py: TradingService, bound to account a *)

\* TradingService._update_holdings: the holdings store it leaves, or the
\* error raised by remove_shares (the store is then untouched)
update_holdings(hs, a, symbol, quantity, price_per_share, at) ==
    LET found == find_by_symbol(hs, a, symbol)
        holding == IF found = None
                   THEN Holding(a, symbol, 0, FracOfInt(0), at)
                   ELSE found[1]
    IN  IF quantity > 0
        THEN [ok |-> TRUE,
              holdings |-> save_holding(hs, add_shares(holding, quantity,
                                                       price_per_share, at))]
        ELSE IF ~remove_shares_ok(holding, -quantity)
        THEN [ok |-> FALSE, holdings |-> hs]
        ELSE [ok |-> TRUE,
              holdings |-> save_holding(hs, remove_shares(holding, -quantity))]

\* TradingService._create_buy_transaction
create_buy_transaction(l, a, symbol, quantity, at) ==
    LET p == get_price(l.cache, symbol, at)
        price_per_share == p.price
        total_cost == price_per_share * quantity
        l0 == [l EXCEPT !.cache = p.cache,
                        !.price_lookups = Append(@, p.price)]
    IN  IF ~update_balance_ok(l0.accounts[a], -total_cost)
        THEN Result(l0, "negative_balance", None)
        ELSE
          LET l1 == [l0 EXCEPT !.accounts[a] = update_balance(@, -total_cost)]
              u  == update_holdings(l1.holdings, a, symbol, quantity,
                                    price_per_share, at)
          IN  IF ~u.ok
              THEN Result(l1, "remove_shares", None)
              ELSE
                LET l2  == [l1 EXCEPT !.holdings = u.holdings]
                    txn == Transaction(l2.next_id, a, "BUY", total_cost, at,
                                       Some(symbol), Some(quantity),
                                       Some(price_per_share), "COMPLETED", None)
                IN  IF ~post_init_ok(txn)
                    THEN Result(l2, "TransactionException", None)
                    ELSE Result([l2 EXCEPT
                                    !.repo_transactions = save_transaction(@, txn),
                                    !.next_id = @ + 1],
                                "ok", None)

\* TradingService._create_sell_transaction
create_sell_transaction(l, a, symbol, quantity, at) ==
    LET p == get_price(l.cache, symbol, at)
        price_per_share == p.price
        total_revenue == price_per_share * quantity
        l0 == [l EXCEPT !.cache = p.cache,
                        !.price_lookups = Append(@, p.price)]
    IN  IF ~update_balance_ok(l0.accounts[a], total_revenue)
        THEN Result(l0, "negative_balance", None)
        ELSE
          LET l1 == [l0 EXCEPT !.accounts[a] = update_balance(@, total_revenue)]
              u  == update_holdings(l1.holdings, a, symbol, -quantity,
                                    price_per_share, at)
          IN  IF ~u.ok
              THEN Result(l1, "remove_shares", None)
              ELSE
                LET l2  == [l1 EXCEPT !.holdings = u.holdings]
                    txn == Transaction(l2.next_id, a, "SELL", total_revenue, at,
                                       Some(symbol), Some(quantity),
                                       Some(price_per_share), "COMPLETED", None)
                IN  IF ~post_init_ok(txn)
                    THEN Result(l2, "TransactionException", None)
                    ELSE Result([l2 EXCEPT
                                    !.repo_transactions = save_transaction(@, txn),
                                    !.next_id = @ + 1],
                                "ok", None)

\* TradingValidator.validate_buy: "ok" or the error it raises, and the ledger
\* with the cache its price lookup leaves
validate_buy(l, a, symbol, quantity, at) ==
    IF ~validate_symbol(symbol) THEN Result(l, "unsupported_symbol", None)
    ELSE IF ~is_supported_symbol(symbol) THEN Result(l, "unsupported_symbol", None)
    ELSE
      LET p  == get_price(l.cache, symbol, at)
          l1 == [l EXCEPT !.cache = p.cache,
                          !.price_lookups = Append(@, p.price)]
      IN  IF ~validate_affordability(l1.accounts[a], p.price, quantity)
          THEN Result(l1, "insufficient_funds", None)
          ELSE Result(l1, "ok", None)

\* TradingService.buy_shares
buy_shares_result(l, a, symbol, quantity, at) ==
    LET v == validate_buy(l, a, symbol, quantity, at)
    IN  IF v.outcome # "ok" THEN v
        ELSE create_buy_transaction(v.ledger, a, symbol, quantity, at)

\* TradingValidator.validate_sell: "ok" or the error it raises
validate_sell(l, a, symbol, quantity) ==
    IF ~validate_symbol(symbol) THEN Result(l, "unsupported_symbol", None)
    ELSE IF ~validate_share_availability(l.holdings, a, symbol, quantity)
    THEN Result(l, "insufficient_shares", None)
    ELSE Result(l, "ok", None)

\* TradingService.sell_shares, the call of _create_sell_transaction, whose
\* price lookup raises on a symbol the Price Oracle does not support
sell_execute(l, a, symbol, quantity, at) ==
    IF ~is_supported_symbol(symbol) THEN Result(l, "unsupported_symbol", None)
    ELSE create_sell_transaction(l, a, symbol, quantity, at)

\* TradingService.sell_shares
sell_shares_result(l, a, symbol, quantity, at) ==
    LET v == validate_sell(l, a, symbol, quantity)
    IN  IF v.outcome # "ok" THEN v
        ELSE sell_execute(v.ledger, a, symbol, quantity, at)

---------------------------------------------------------------------------
(* app_state.py: AppState.get_transaction_history *)

\* where list.sort(key = transaction_timestamp, reverse = True) puts txn in a
\* list that is already in order: behind every record that is not older
insert_by_timestamp(sorted, txn) ==
    LET ahead == {i \in DOMAIN sorted :
                     sorted[i].transaction_timestamp >= txn.transaction_timestamp}
        k == Cardinality(ahead)
    IN  SubSeq(sorted, 1, k) \o <<txn>> \o SubSeq(sorted, k + 1, Len(sorted))

\* mutant: the history is returned as it was put together, unsorted
sort_skipped(txns) == txns

\* all_txns.sort(key=lambda t: t.transaction_timestamp, reverse=True): newest
\* first, records of one timestamp in the order they had
RECURSIVE sort_by_timestamp_descending(_)
sort_by_timestamp_descending(txns) ==
    IF txns = <<>> THEN <<>>
    ELSE insert_by_timestamp(
             sort_by_timestamp_descending(SubSeq(txns, 1, Len(txns) - 1)),
             txns[Len(txns)])

\* AppState.get_transaction_history with a the current account
get_transaction_history(l, a) ==
    LET funds_txns == funds_history(l, a)
        trading_txns == get_by_account(l.repo_transactions, a)
        all_txns == funds_txns \o trading_txns
    IN  sort_by_timestamp_descending(all_txns)

\* AppState.get_holdings with a the current account
get_holdings_result(l, a) == Result(l, "ok", Some(get_all(l.holdings, a)))

\* mutant: the history sorts the repository's own list
get_transaction_history_in_place(l, a) ==
    Result([l EXCEPT !.repo_transactions = sort_by_timestamp_descending(@)],
           "ok", Some(get_transaction_history(l, a)))

\* AppState.get_transaction_history as a call: the stores are read, the list
\* that is sorted is a new one
get_transaction_history_result(l, a) ==
    Result(l, "ok", Some(get_transaction_history(l, a)))

---------------------------------------------------------------------------
(* portfolio_valuation.py: PortfolioValuator and ProfitLossCalculator, of  *)
(* account a and the list held of Holding objects the valuator was given   *)

\* list(...values()) of HoldingsRepository.get_all: the holdings as a list
RECURSIVE ListOf(_)
ListOf(S) ==
    IF S = {} THEN <<>>
    ELSE LET x == CHOOSE y \in S : TRUE IN <<x>> \o ListOf(S \ {x})

\* AppState.get_portfolio_valuator: the list the valuator is constructed with
valuator_holdings(l, a) == ListOf(get_all(l.holdings, a))

RECURSIVE calculate_holding_value(_, _, _)

\* mutant: the first lookup that raises ends the loop
calculate_holding_value_aborting(held, c, at) ==
    IF held = <<>> \/ ~is_supported_symbol(held[1].symbol)
    THEN [value |-> 0, cache |-> c]
    ELSE LET p == get_price(c, held[1].symbol, at)
             rest == calculate_holding_value(Tail(held), p.cache, at)
         IN  [value |-> held[1].quantity * p.price + rest.value,
              cache |-> rest.cache]

\* PortfolioValuator.calculate_holding_value: the loop over the holdings, a
\* lookup that raises skipped; the total and the cache the lookups leave
calculate_holding_value(held, c, at) ==
    IF held = <<>> THEN [value |-> 0, cache |-> c]
    ELSE IF ~is_supported_symbol(held[1].symbol)
    THEN calculate_holding_value(Tail(held), c, at)
    ELSE LET p == get_price(c, held[1].symbol, at)
             rest == calculate_holding_value(Tail(held), p.cache, at)
         IN  [value |-> held[1].quantity * p.price + rest.value,
              cache |-> rest.cache]

\* PortfolioValuator.get_all_holding_values: the dictionary built by the loop,
\* a later holding of a symbol replacing an earlier one
RECURSIVE get_all_holding_values(_, _, _, _)
get_all_holding_values(held, c, at, holding_values) ==
    IF held = <<>> THEN [value |-> holding_values, cache |-> c]
    ELSE IF ~is_supported_symbol(held[1].symbol)
    THEN get_all_holding_values(Tail(held), c, at, holding_values)
    ELSE LET p == get_price(c, held[1].symbol, at)
             symbol == held[1].symbol
         IN  get_all_holding_values(Tail(held), p.cache, at,
                 [s \in DOMAIN holding_values \cup {symbol} |->
                     IF s = symbol THEN held[1].quantity * p.price
                     ELSE holding_values[s]])

\* PortfolioValuator.calculate_cash_value
calculate_cash_value(account) == account.cash_balance

\* mutant: the total value leaves the market value of the holdings out
calculate_total_value_cash_only(account, held, c, at) ==
    [value |-> calculate_cash_value(account),
     cache |-> calculate_holding_value(held, c, at).cache]

\* PortfolioValuator.calculate_total_value
calculate_total_value(account, held, c, at) ==
    LET holding_value == calculate_holding_value(held, c, at)
    IN  [value |-> calculate_cash_value(account) + holding_value.value,
         cache |-> holding_value.cache]

\* mutant: the withdrawals are added to the deposits
calculate_cumulative_net_deposits_added(account) ==
    account.total_deposits + account.total_withdrawals

\* ProfitLossCalculator.calculate_cumulative_net_deposits
calculate_cumulative_net_deposits(account) ==
    account.total_deposits - account.total_withdrawals

\* ProfitLossCalculator.calculate_total_pnl
calculate_total_pnl(account, held, c, at) ==
    LET portfolio_value == calculate_total_value(account, held, c, at)
        cumulative_net_deposits == calculate_cumulative_net_deposits(account)
    IN  [value |-> portfolio_value.value - cumulative_net_deposits,
         cache |-> portfolio_value.cache]

ValuationOperations ==
    {"calculate_cash_value", "calculate_holding_value", "calculate_total_value",
     "get_all_holding_values", "calculate_cumulative_net_deposits",
     "calculate_total_pnl"}

\* the value an operation of the valuation surface returns and the cache it
\* leaves
valuation(op, account, held, c, at) ==
    CASE op = "calculate_cash_value" ->
             [value |-> calculate_cash_value(account), cache |-> c]
      [] op = "calculate_holding_value" -> calculate_holding_value(held, c, at)
      [] op = "calculate_total_value" ->
             calculate_total_value(account, held, c, at)
      [] op = "get_all_holding_values" ->
             get_all_holding_values(held, c, at, EmptyMap)
      [] op = "calculate_cumulative_net_deposits" ->
             [value |-> calculate_cumulative_net_deposits(account), cache |-> c]
      [] op = "calculate_total_pnl" -> calculate_total_pnl(account, held, c, at)

\* mutant: a valuation stamps the holdings it has valued
valuation_result_stamping(l, a, op, held, at) ==
    LET v == valuation(op, l.accounts[a], held, l.cache, at)
    IN  Result([l EXCEPT !.cache = v.cache,
                         !.holdings = [k \in DOMAIN @ |->
                             [s \in DOMAIN @[k] |->
                                 [@[k][s] EXCEPT !.last_updated = at + 1]]]],
               "ok", Some(v.value))

\* a call of the valuation surface on a valuator of account a
valuation_result(l, a, op, held, at) ==
    LET v == valuation(op, l.accounts[a], held, l.cache, at)
    IN  Result([l EXCEPT !.cache = v.cache], "ok", Some(v.value))

---------------------------------------------------------------------------
(* The state machine: one action per call of the core's interface *)

\* the threads that call the services
Threads == {"t1", "t2"}

\* the uuid4 values handed to accounts, in the order they are drawn
AccountIdSeq == <<"acc1">>

\* the uuid4 values handed to users and the usernames they sign up with, in
\* the order of the accounts
UserIdSeq == <<"usr1", "usr2">>
UsernameSeq == <<"alice", "bob">>

\* AppState.__init__: no user is known and none is logged in
NoSession ==
    [users |-> EmptyMap, user_accounts |-> EmptyMap,
     current_user |-> None, current_account |-> None]

\* account_core.py: User
User(user_id, username) == [user_id |-> user_id, username |-> username]

\* AppState.create_user(username, email), user_id and account_id the two
\* uuid4 values it draws
create_user_result(l, username, user_id, account_id) ==
    IF username \in DOMAIN l.session.users
    THEN Result(l, "ValueError", None)
    ELSE LET user == User(user_id, username)
         IN  Result([l EXCEPT
                        !.accounts =
                            [k \in DOMAIN @ \cup {account_id} |->
                                IF k = account_id THEN Account(account_id)
                                ELSE @[k]],
                        !.session.users =
                            [k \in DOMAIN @ \cup {username} |->
                                IF k = username THEN user ELSE @[k]],
                        !.session.user_accounts =
                            [k \in DOMAIN @ \cup {user_id} |->
                                IF k = user_id THEN account_id ELSE @[k]]],
                    "ok", Some(user))

\* AppState.login_user(username)
login_user_result(l, username) ==
    IF username \notin DOMAIN l.session.users THEN Result(l, "ok", Some(FALSE))
    ELSE LET user == l.session.users[username]
             account_id == IF user.user_id \in DOMAIN l.session.user_accounts
                           THEN Some(l.session.user_accounts[user.user_id])
                           ELSE None
         IN  IF account_id # None
             THEN Result([l EXCEPT !.session.current_user = Some(user),
                                   !.session.current_account = account_id],
                         "ok", Some(TRUE))
             ELSE Result(l, "ok", Some(FALSE))

\* mutant: logout_user forgets the user and keeps the account
logout_user_keeps_account(l) ==
    Result([l EXCEPT !.session.current_user = None], "ok", None)

\* AppState.logout_user()
logout_user_result(l) ==
    Result([l EXCEPT !.session.current_user = None,
                     !.session.current_account = None],
           "ok", None)

\* AppState.get_trading_service(): nothing, or the service bound to the
\* current account (given by the account's id)
get_trading_service_result(l) ==
    IF l.session.current_account = None THEN Result(l, "ok", None)
    ELSE Result(l, "ok", l.session.current_account)

\* AppState.get_holdings() of the session: empty when nobody is logged in
current_holdings_result(l) ==
    IF l.session.current_account = None THEN Result(l, "ok", Some({}))
    ELSE get_holdings_result(l, l.session.current_account[1])

\* AppState.get_transaction_history() of the session: empty when nobody is
\* logged in
current_transaction_history_result(l) ==
    IF l.session.current_account = None THEN Result(l, "ok", Some(<<>>))
    ELSE get_transaction_history_result(l, l.session.current_account[1])

NoCall ==
    [op |-> "none", account |-> "", amount |-> 0, symbol |-> "", quantity |-> 0,
     outcome |-> "none", ret |-> None, at |-> 0,
     pre |-> [accounts |-> EmptyMap, holdings |-> EmptyMap,
              funds_transactions |-> <<>>, repo_transactions |-> <<>>,
              cache |-> EmptyMap, next_id |-> 1, price_lookups |-> <<>>,
              session |-> NoSession],
     price_lookups |-> <<>>]

\* AppState.__init__: no user, no account, empty repositories, empty cache
Init ==
    /\ accounts = EmptyMap
    /\ holdings = EmptyMap
    /\ funds_transactions = <<>>
    /\ repo_transactions = <<>>
    /\ cache = EmptyMap
    /\ next_id = 1
    /\ now = 0
    /\ call = NoCall
    /\ nmut = 0
    /\ nok = 0
    /\ objects = <<>>
    /\ in_flight = [t \in Threads |-> None]
    /\ session = NoSession

\* TRUE when the call changed an account, a holding or a transaction store
LedgerChanged(l) ==
    \/ l.accounts # accounts
    \/ l.holdings # holdings
    \/ l.funds_transactions # funds_transactions
    \/ l.repo_transactions # repo_transactions

\* The state after a call with result r, and the record of the call
Record(op, a, amount, symbol, quantity, r) ==
    /\ accounts' = r.ledger.accounts
    /\ holdings' = r.ledger.holdings
    /\ funds_transactions' = r.ledger.funds_transactions
    /\ repo_transactions' = r.ledger.repo_transactions
    /\ cache' = r.ledger.cache
    /\ next_id' = r.ledger.next_id
    /\ session' = r.ledger.session
    /\ call' = [op |-> op, account |-> a, amount |-> amount, symbol |-> symbol,
                quantity |-> quantity, outcome |-> r.outcome, ret |-> r.ret,
                at |-> now, pre |-> Ledger,
                price_lookups |-> r.ledger.price_lookups]
    /\ UNCHANGED now

\* A call of the funds or trading service: counted when it changed the ledger
Commit(op, a, amount, symbol, quantity, r) ==
    /\ Record(op, a, amount, symbol, quantity, r)
    /\ nmut' = IF LedgerChanged(r.ledger) THEN nmut + 1 ELSE nmut
    /\ nok' = IF r.outcome = "ok" THEN nok + 1 ELSE nok
    /\ UNCHANGED <<objects, in_flight>>

\* AppState.create_user with a username that is not taken: a new user and a
\* new account with zero balances, its uuid4 the next one of ids
CreateUser(ids) ==
    /\ Cardinality(DOMAIN accounts) < Len(ids)
    /\ LET k == Cardinality(DOMAIN accounts) + 1
       IN  Record("create_user", ids[k], 0, "", 0,
                  create_user_result(Ledger, UsernameSeq[k], UserIdSeq[k], ids[k]))
    /\ UNCHANGED <<nmut, nok, objects, in_flight>>

\* FundsService.deposit(account, amount), amount drawn from amounts
Deposit(amounts) ==
    /\ nmut < MaxMutations
    /\ \E a \in DOMAIN accounts, amount \in amounts :
          Commit("deposit", a, amount, "", 0, deposit_result(Ledger, a, amount, now))

\* FundsService.withdraw(account, amount), amount drawn from amounts
Withdraw(amounts) ==
    /\ nmut < MaxMutations
    /\ \E a \in DOMAIN accounts, amount \in amounts :
          Commit("withdraw", a, amount, "", 0, withdraw_result(Ledger, a, amount, now))

\* TradingService.buy_shares(symbol, quantity) of the service bound to an account
BuyShares(symbols, quantities) ==
    /\ nmut < MaxMutations
    /\ \E a \in DOMAIN accounts, symbol \in symbols, quantity \in quantities :
          Commit("buy_shares", a, 0, symbol, quantity,
                 buy_shares_result(Ledger, a, symbol, quantity, now))

\* TradingService.sell_shares(symbol, quantity) of the service bound to an account
SellShares(symbols, quantities) ==
    /\ nmut < MaxMutations
    /\ \E a \in DOMAIN accounts, symbol \in symbols, quantity \in quantities :
          Commit("sell_shares", a, 0, symbol, quantity,
                 sell_shares_result(Ledger, a, symbol, quantity, now))

\* the clock advances by one of steps
Advance(steps) ==
    /\ \E d \in steps : now + d <= MaxTime /\ now' = now + d
    /\ UNCHANGED <<accounts, holdings, funds_transactions, repo_transactions,
                   cache, next_id, call, nmut, nok, objects, in_flight,
                   session>>

create_user == CreateUser(AccountIdSeq)
deposit == Deposit(DepositAmounts)
withdraw == Withdraw(WithdrawAmounts)
buy_shares == BuyShares(InputSymbols, Quantities)
sell_shares == SellShares(InputSymbols, Quantities)
Tick == Advance(TickSteps)

Next == create_user \/ deposit \/ withdraw \/ buy_shares \/ sell_shares \/ Tick

Spec == Init /\ [][Next]_vars

---------------------------------------------------------------------------
(* The Price Oracle on a clock of single minutes: direct get_price calls,  *)
(* and purchases of one share by an account without funds, which consult   *)
(* the oracle and are then refused                                         *)

MinuteSteps == {1}
PurchaseQuantities == {1}

\* PriceService.get_price(symbol)
GetPrice(symbols) ==
    /\ \E symbol \in symbols :
          Record("get_price", "", 0, symbol, 0,
                 get_price_result(Ledger, symbol, now))
    /\ UNCHANGED <<nmut, nok, objects, in_flight>>

NextPrice ==
    \/ CreateUser(AccountIdSeq)
    \/ BuyShares(InputSymbols, PurchaseQuantities)
    \/ GetPrice(InputSymbols)
    \/ Advance(MinuteSteps)

SpecPrice == Init /\ [][NextPrice]_vars

---------------------------------------------------------------------------
(* Two accounts in one AppState, each depositing, withdrawing, buying and  *)
(* selling one share of one symbol                                         *)

TwoAccountIds == <<"acc1", "acc2">>
SharePrices == {14500}
TradedSymbols == {"AAPL"}
SingleShare == {1}

NextTwo ==
    \/ CreateUser(TwoAccountIds)
    \/ Deposit(SharePrices)
    \/ Withdraw(SharePrices)
    \/ BuyShares(TradedSymbols, SingleShare)
    \/ SellShares(TradedSymbols, SingleShare)
    \/ Advance(TickSteps)

SpecTwo == Init /\ [][NextTwo]_vars

---------------------------------------------------------------------------
(* The read and valuation surface of one account that deposits, withdraws, *)
(* buys and sells single shares of two symbols                             *)

ValuedSymbols == {"AAPL", "TSLA"}
ValuedAmounts == {14500, 79500}
\* symbol of the holding a PortfolioValuator is given ahead of those of the
\* store ("": none, the valuator AppState.get_portfolio_valuator constructs)
GivenSymbols == {"", "MSFT", "AAPL"}

\* AppState.get_holdings()
GetHoldings ==
    /\ \E a \in DOMAIN accounts :
          Record("get_holdings", a, 0, "", 0, get_holdings_result(Ledger, a))
    /\ UNCHANGED <<nmut, nok, objects, in_flight>>

\* AppState.get_transaction_history()
GetTransactionHistory ==
    /\ \E a \in DOMAIN accounts :
          Record("get_transaction_history", a, 0, "", 0,
                 get_transaction_history_result(Ledger, a))
    /\ UNCHANGED <<nmut, nok, objects, in_flight>>

\* the list of holdings of a valuator of account a: those of the store, behind
\* one share of the given symbol when there is one
given_holdings(l, a, symbol) ==
    (IF symbol = "" THEN <<>> ELSE <<Holding(a, symbol, 1, FracOfInt(0), 0)>>)
        \o valuator_holdings(l, a)

\* an operation of PortfolioValuator or ProfitLossCalculator
Valuate(operations, symbols) ==
    /\ \E a \in DOMAIN accounts, op \in operations, symbol \in symbols :
          Record(op, a, 0, symbol, 0,
                 valuation_result(Ledger, a, op,
                                  given_holdings(Ledger, a, symbol), now))
    /\ UNCHANGED <<nmut, nok, objects, in_flight>>

NextValue ==
    \/ CreateUser(AccountIdSeq)
    \/ Deposit(ValuedAmounts)
    \/ Withdraw(SharePrices)
    \/ BuyShares(ValuedSymbols, SingleShare)
    \/ SellShares(ValuedSymbols, SingleShare)
    \/ Advance(TickSteps)
    \/ GetHoldings
    \/ GetTransactionHistory
    \/ Valuate(ValuationOperations, GivenSymbols)

SpecValue == Init /\ [][NextValue]_vars

---------------------------------------------------------------------------
(* Transaction objects constructed and re-marked by a caller, outside the  *)
(* services and the repositories                                           *)

\* the fields a constructor call passes; status and failure_reason are the
\* defaults of the dataclass
Payload(type, total_amount, symbol, quantity) ==
    [account_id |-> "acc1", transaction_type |-> type,
     total_amount |-> total_amount, symbol |-> symbol, quantity |-> quantity,
     price_per_share |-> None, status |-> "PENDING", failure_reason |-> None]

Payloads ==
    {Payload("DEPOSIT", 500, None, None), Payload("DEPOSIT", 0, None, None),
     Payload("BUY", 500, Some("AAPL"), Some(1)),
     Payload("BUY", 0, Some("AAPL"), Some(1)),
     Payload("BUY", 500, None, Some(1)),
     Payload("SELL", 500, Some("AAPL"), None)}
GivenStatuses == {"PENDING", "COMPLETED"}
Reasons == {"declined"}

\* one more entry of objects: the call, its input, the object it was made on
\* (0: none) and the object it returned (None: it raised)
Made(via, from, input, made) ==
    /\ Len(objects) < MaxObjects
    /\ objects' = Append(objects, [via |-> via, from |-> from,
                                   input |-> input, txn |-> made])
    /\ next_id' = IF made = None THEN next_id ELSE next_id + 1
    /\ UNCHANGED <<accounts, holdings, funds_transactions, repo_transactions,
                   cache, now, call, nmut, nok, in_flight, session>>

\* Transaction(..., status=status)
NewTransaction(payloads, statuses) ==
    /\ payloads # {}
    /\ \E p \in payloads, status \in statuses :
          LET input == [p EXCEPT !.status = status]
          IN  Made("Transaction", 0, input, construct(next_id, input, now))

\* TransactionFactory.create_failed_transaction(...)
CreateFailedTransaction(payloads, reasons) ==
    /\ payloads # {}
    /\ \E p \in payloads, reason \in reasons :
          Made("create_failed_transaction", 0,
               [p EXCEPT !.status = "FAILED", !.failure_reason = Some(reason)],
               create_failed_transaction(next_id, p, reason, now))

\* txn.mark_as_completed() on an object made earlier
MarkAsCompleted ==
    \E i \in DOMAIN objects :
        /\ objects[i].txn # None
        /\ Made("mark_as_completed", i, objects[i].txn[1],
                mark_as_completed(next_id, objects[i].txn[1], now))

\* txn.mark_as_failed(reason) on an object made earlier
MarkAsFailed(reasons) ==
    \E i \in DOMAIN objects, reason \in reasons :
        /\ objects[i].txn # None
        /\ Made("mark_as_failed", i, objects[i].txn[1],
                mark_as_failed(next_id, objects[i].txn[1], reason, now))

NextTransaction ==
    \/ NewTransaction(Payloads, GivenStatuses)
    \/ CreateFailedTransaction(Payloads, Reasons)
    \/ MarkAsCompleted
    \/ MarkAsFailed(Reasons)
    \/ Advance(TickSteps)

SpecTransaction == Init /\ [][NextTransaction]_vars

---------------------------------------------------------------------------
(* Two threads calling the services of one AppState.  No call takes a lock, *)
(* so a thread can be preempted between the validation of its call and the *)
(* try block that executes it                                              *)

\* the calls a thread can make, with their arguments
Requests(amounts, symbols, quantities) ==
    {[op |-> op, amount |-> amount, symbol |-> "", quantity |-> 0] :
        op \in {"deposit", "withdraw"}, amount \in amounts}
    \cup {[op |-> op, amount |-> 0, symbol |-> symbol, quantity |-> quantity] :
            op \in {"buy_shares", "sell_shares"}, symbol \in symbols,
            quantity \in quantities}

\* the validation a call starts with: "ok" or the error it raises
validate_call(l, a, q, at) ==
    CASE q.op = "deposit" ->
             Result(l, validate_deposit(l.accounts[a], q.amount), None)
      [] q.op = "withdraw" ->
             Result(l, validate_withdrawal(l.accounts[a], q.amount), None)
      [] q.op = "buy_shares" -> validate_buy(l, a, q.symbol, q.quantity, at)
      [] q.op = "sell_shares" -> validate_sell(l, a, q.symbol, q.quantity)

\* the rest of a call whose validation has passed
execute_call(l, a, q, at) ==
    CASE q.op = "deposit" -> deposit_execute(l, a, q.amount, at)
      [] q.op = "withdraw" -> withdraw_execute(l, a, q.amount, at)
      [] q.op = "buy_shares" ->
             create_buy_transaction(l, a, q.symbol, q.quantity, at)
      [] q.op = "sell_shares" -> sell_execute(l, a, q.symbol, q.quantity, at)

\* the threads that have validated a call and not yet executed it
Busy == {t \in Threads : in_flight[t] # None}

\* a thread calls deposit, withdraw, buy_shares or sell_shares and runs the
\* validation: the call ends there with its error, or is in flight
Begin(amounts, symbols, quantities) ==
    /\ nmut + Cardinality(Busy) < MaxMutations
    /\ \E t \in Threads \ Busy, a \in DOMAIN accounts,
          q \in Requests(amounts, symbols, quantities) :
          LET v == validate_call(Ledger, a, q, now)
          IN  IF v.outcome # "ok"
              THEN Commit(q.op, a, q.amount, q.symbol, q.quantity, v)
              ELSE /\ cache' = v.ledger.cache
                   /\ in_flight' = [in_flight EXCEPT
                                       ![t] = Some([account |-> a, request |-> q])]
                   /\ UNCHANGED <<accounts, holdings, funds_transactions,
                                  repo_transactions, next_id, now, call, nmut,
                                  nok, objects, session>>

\* a thread in flight runs the try block of its call to the end
Finish ==
    \E t \in Busy :
        LET a == in_flight[t][1].account
            q == in_flight[t][1].request
            r == execute_call(Ledger, a, q, now)
        IN  /\ Record(q.op, a, q.amount, q.symbol, q.quantity, r)
            /\ nmut' = IF LedgerChanged(r.ledger) THEN nmut + 1 ELSE nmut
            /\ nok' = IF r.outcome = "ok" THEN nok + 1 ELSE nok
            /\ in_flight' = [in_flight EXCEPT ![t] = None]
            /\ UNCHANGED objects

NextThreads ==
    \/ CreateUser(AccountIdSeq)
    \/ Begin(SharePrices, TradedSymbols, SingleShare)
    \/ Finish
    \/ Advance(TickSteps)

SpecThreads == Init /\ [][NextThreads]_vars

---------------------------------------------------------------------------
(* Two threads and two accounts: calls on different accounts interleave in *)
(* every way over the shared repositories                                  *)

BoughtOrSold == {-1, 1}

NextTwoThreads ==
    \/ CreateUser(TwoAccountIds)
    \/ Begin(SharePrices, TradedSymbols, BoughtOrSold)
    \/ Finish
    \/ Advance(TickSteps)

SpecTwoThreads == Init /\ [][NextTwoThreads]_vars

---------------------------------------------------------------------------
(* Properties.  call is the last call of the interface and call.pre the   *)
(* ledger it started from, so a state predicate over call, call.pre and   *)
(* the current ledger states what that call did.                          *)

Pre == call.pre
IsFundsCall == call.op \in {"deposit", "withdraw"}
IsTradeCall == call.op \in {"buy_shares", "sell_shares"}

\* the account the last call was made on, before and after it
PreAccount == Pre.accounts[call.account]
PostAccount == accounts[call.account]

\* everything but the price cache is as the call found it
LedgerUntouched ==
    /\ accounts = Pre.accounts
    /\ holdings = Pre.holdings
    /\ funds_transactions = Pre.funds_transactions
    /\ repo_transactions = Pre.repo_transactions

\* shares of symbol the store holds for the account (0 when there is no entry)
HeldQuantity(hs, a, symbol) ==
    LET h == find_by_symbol(hs, a, symbol)
    IN  IF h = None THEN 0 ELSE h[1].quantity

\* transaction ids of both stores
AllIds(l) ==
    {l.funds_transactions[i].transaction_id : i \in DOMAIN l.funds_transactions}
    \cup {l.repo_transactions[i].transaction_id : i \in DOMAIN l.repo_transactions}

\* C1: after every deposit, withdraw, buy_shares or sell_shares call, accepted
\* or rejected, in any sequence from a newly created account, cash_balance >= 0.
C1_BalanceNonNegative ==
    \A a \in DOMAIN accounts : accounts[a].cash_balance >= 0

\* C1 witness: a sell_shares call with a negative quantity, whose negative
\* credit would have taken a balance of 0 below zero, was stopped by
\* update_balance.
C1_Witness ==
    /\ call.op = "sell_shares"
    /\ call.outcome = "negative_balance"
    /\ PostAccount.cash_balance = 0

\* C2: total_deposits >= 0 and total_withdrawals >= 0 for every account, no
\* call decreases either, and a rejected deposit or withdraw leaves both unchanged.
C2_TotalsMonotone ==
    /\ \A a \in DOMAIN accounts :
          /\ accounts[a].total_deposits >= 0
          /\ accounts[a].total_withdrawals >= 0
          /\ a \in DOMAIN Pre.accounts =>
                /\ accounts[a].total_deposits >= Pre.accounts[a].total_deposits
                /\ accounts[a].total_withdrawals >= Pre.accounts[a].total_withdrawals
    /\ IsFundsCall /\ call.outcome # "ok" =>
          \A a \in DOMAIN accounts :
              /\ accounts[a].total_deposits = Pre.accounts[a].total_deposits
              /\ accounts[a].total_withdrawals = Pre.accounts[a].total_withdrawals

\* C2 witness: a deposit is rejected on an account that already has deposits
\* and withdrawals.
C2_Witness ==
    /\ call.op = "deposit"
    /\ call.outcome # "ok"
    /\ call.amount > 0
    /\ PostAccount.total_deposits > 0
    /\ PostAccount.total_withdrawals > 0

\* C3: every holding in the store has quantity >= 1 and avg_cost_basis >= 0;
\* after a completed buy_shares or sell_shares the (account, symbol) entry is
\* absent exactly when the account is left with 0 shares of the symbol, and
\* otherwise holds the shares that are left.
C3_NoEmptyHolding ==
    /\ \A a \in DOMAIN holdings : \A s \in DOMAIN holdings[a] :
          /\ holdings[a][s].quantity >= 1
          /\ holdings[a][s].avg_cost_basis.n >= 0
          /\ holdings[a][s].avg_cost_basis.d > 0
    /\ \A a \in DOMAIN accounts : \A h \in get_all(holdings, a) : h.quantity >= 1
    /\ IsTradeCall /\ call.outcome = "ok" =>
          LET before == HeldQuantity(Pre.holdings, call.account, call.symbol)
              left == IF call.op = "buy_shares"
                      THEN before + call.quantity ELSE before - call.quantity
              entry == find_by_symbol(holdings, call.account, call.symbol)
          IN  /\ (entry = None) <=> (left = 0)
              /\ entry # None => entry[1].quantity = left

\* C3 witness: a sell_shares call sold the last shares of a holding, and the
\* entry is gone.
C3_Witness ==
    /\ call.op = "sell_shares"
    /\ call.outcome = "ok"
    /\ find_by_symbol(Pre.holdings, call.account, call.symbol) # None
    /\ find_by_symbol(holdings, call.account, call.symbol) = None

\* C4: a successful buy of q shares at price p on a holding with quantity Q
\* and average cost A (Q = 0, A = 0 on the first buy) leaves quantity Q + q and
\* avg_cost_basis = (Q*A + q*p) / (Q + q).
C4_WeightedAverage ==
    call.op = "buy_shares" /\ call.outcome = "ok" =>
        LET old == find_by_symbol(Pre.holdings, call.account, call.symbol)
            Q == IF old = None THEN 0 ELSE old[1].quantity
            A == IF old = None THEN FracOfInt(0) ELSE old[1].avg_cost_basis
            q == call.quantity
            p == repo_transactions[Len(repo_transactions)].price_per_share[1]
            new == find_by_symbol(holdings, call.account, call.symbol)
        IN  /\ new # None
            /\ new[1].quantity = Q + q
            /\ new[1].avg_cost_basis =
                  FracDivInt(FracAdd(FracTimesInt(A, Q), FracOfInt(q * p)), Q + q)

\* C5: a deposit of an amount within [min_deposit, max_deposit] adds exactly
\* the amount to cash_balance and to total_deposits, leaves total_withdrawals
\* unchanged, appends exactly one COMPLETED DEPOSIT transaction of that amount
\* for the account and returns that transaction's identifier.
C5_DepositEffect ==
    call.op = "deposit"
    /\ MIN_DEPOSIT_AMOUNT <= call.amount /\ call.amount <= MAX_DEPOSIT_AMOUNT =>
        /\ call.outcome = "ok"
        /\ PostAccount.cash_balance = PreAccount.cash_balance + call.amount
        /\ PostAccount.total_deposits = PreAccount.total_deposits + call.amount
        /\ PostAccount.total_withdrawals = PreAccount.total_withdrawals
        /\ \A a \in DOMAIN accounts \ {call.account} : accounts[a] = Pre.accounts[a]
        /\ repo_transactions = Pre.repo_transactions
        /\ Len(funds_transactions) = Len(Pre.funds_transactions) + 1
        /\ SubSeq(funds_transactions, 1, Len(Pre.funds_transactions))
              = Pre.funds_transactions
        /\ LET txn == funds_transactions[Len(funds_transactions)]
           IN  /\ txn.account_id = call.account
               /\ txn.transaction_type = "DEPOSIT"
               /\ txn.status = "COMPLETED"
               /\ txn.total_amount = call.amount
               /\ txn.transaction_id \notin AllIds(Pre)
               /\ call.ret = Some(txn.transaction_id)

\* C5 witness: an accepted deposit on an account that already has a balance
\* and a transaction history.
C5_Witness ==
    /\ call.op = "deposit"
    /\ call.outcome = "ok"
    /\ PreAccount.cash_balance > 0
    /\ Len(Pre.funds_transactions) > 0

\* the checks a COMPLETED record of the funds service appended by the last call
\* has to pass: it is the only new record, of the given kind and amount
FundsRecordAppended(type) ==
    /\ repo_transactions = Pre.repo_transactions
    /\ Len(funds_transactions) = Len(Pre.funds_transactions) + 1
    /\ SubSeq(funds_transactions, 1, Len(Pre.funds_transactions))
          = Pre.funds_transactions
    /\ LET txn == funds_transactions[Len(funds_transactions)]
       IN  /\ txn.account_id = call.account
           /\ txn.transaction_type = type
           /\ txn.status = "COMPLETED"
           /\ txn.total_amount = call.amount

\* what a successful withdrawal of call.amount leaves
WithdrawalApplied ==
    /\ call.outcome = "ok"
    /\ PostAccount.cash_balance = PreAccount.cash_balance - call.amount
    /\ PostAccount.total_withdrawals = PreAccount.total_withdrawals + call.amount
    /\ PostAccount.total_deposits = PreAccount.total_deposits
    /\ holdings = Pre.holdings
    /\ FundsRecordAppended("WITHDRAWAL")

\* C6 as stated: a withdrawal with min_withdrawal <= amount <= cash_balance
\* takes exactly the amount off cash_balance (the whole balance included), adds
\* it to total_withdrawals, leaves total_deposits unchanged and appends exactly
\* one COMPLETED WITHDRAWAL transaction.
C6_Original ==
    call.op = "withdraw"
    /\ MIN_WITHDRAWAL_AMOUNT <= call.amount
    /\ call.amount <= PreAccount.cash_balance
    => WithdrawalApplied

\* C6 amended: the same for min_withdrawal <= amount <= cash_balance with the
\* amount also at most the withdrawal limit of 1,000,000.00.
C6_WithdrawEffect ==
    call.op = "withdraw"
    /\ MIN_WITHDRAWAL_AMOUNT <= call.amount
    /\ call.amount <= WITHDRAWAL_LIMIT
    /\ call.amount <= PreAccount.cash_balance
    => WithdrawalApplied

\* C6 witness: a withdrawal of the whole balance is accepted and leaves 0.
C6_Witness ==
    /\ call.op = "withdraw"
    /\ call.outcome = "ok"
    /\ call.amount = PreAccount.cash_balance
    /\ PostAccount.cash_balance = 0

\* C7 as stated: a withdraw call whose amount exceeds cash_balance fails with
\* the insufficient-funds InvalidOperation, leaves cash_balance and both totals
\* unchanged and records no transaction.
C7_Original ==
    call.op = "withdraw" /\ call.amount > PreAccount.cash_balance =>
        /\ call.outcome = "insufficient_funds"
        /\ call.ret = None
        /\ LedgerUntouched

\* C7 amended: such a call fails with InvalidOperation, for insufficient
\* funds when the amount is within the permitted range and for the range when
\* it is above the withdrawal limit; nothing is changed or recorded.
C7_WithdrawOverBalance ==
    call.op = "withdraw" /\ call.amount > PreAccount.cash_balance =>
        /\ call.outcome =
              (IF call.amount <= WITHDRAWAL_LIMIT
               THEN "insufficient_funds" ELSE "range")
        /\ call.ret = None
        /\ LedgerUntouched

\* C7 witness: an in-range withdrawal of more than a positive balance is
\* rejected for insufficient funds.
C7_Witness ==
    /\ call.op = "withdraw"
    /\ call.outcome = "insufficient_funds"
    /\ PreAccount.cash_balance > 0
    /\ call.amount > PreAccount.cash_balance

\* C8: deposit accepts an amount exactly when min_deposit <= amount <=
\* max_deposit, the two ends included; any other amount fails with the
\* InvalidOperation of the range check, changes no account field and records
\* no transaction.
C8_DepositRange ==
    call.op = "deposit" =>
        LET inrange == /\ MIN_DEPOSIT_AMOUNT <= call.amount
                       /\ call.amount <= MAX_DEPOSIT_AMOUNT
        IN  /\ (call.outcome = "ok") <=> inrange
            /\ ~inrange =>
                  /\ call.outcome = "range"
                  /\ call.ret = None
                  /\ LedgerUntouched
                  /\ cache = Pre.cache

\* C8 witness: a deposit of exactly max_deposit is accepted after a deposit of
\* max_deposit + 0.01 was refused (the account holds only accepted amounts).
C8_Witness ==
    /\ call.op = "deposit"
    /\ call.amount = MAX_DEPOSIT_AMOUNT
    /\ call.outcome = "ok"
    /\ PostAccount.cash_balance = PreAccount.cash_balance + MAX_DEPOSIT_AMOUNT

\* C8 second case reached: a deposit one cent under min_deposit is refused on
\* an account that has a balance.
C8_RejectReached ==
    /\ call.op = "deposit"
    /\ call.amount = MIN_DEPOSIT_AMOUNT - 1
    /\ call.outcome = "range"
    /\ PreAccount.cash_balance > 0

\* C9: withdraw checks the range before the balance: an amount outside the
\* permitted range gets the range error whatever the balance is, and the
\* insufficient-funds error is given only to in-range amounts above the balance.
C9_RangeBeforeBalance ==
    call.op = "withdraw" =>
        LET inrange == /\ MIN_WITHDRAWAL_AMOUNT <= call.amount
                       /\ call.amount <= WITHDRAWAL_LIMIT
        IN  /\ ~inrange => call.outcome = "range"
            /\ call.outcome = "insufficient_funds" =>
                  inrange /\ call.amount > PreAccount.cash_balance
            /\ call.outcome = "range" => ~inrange

\* C9 witness: an amount above the limit is refused with the range error on
\* an account whose balance would cover it.
C9_Witness ==
    /\ call.op = "withdraw"
    /\ call.amount > WITHDRAWAL_LIMIT
    /\ PreAccount.cash_balance >= call.amount
    /\ call.outcome = "range"

\* C9 second case reached: an amount above the limit and above the balance is
\* refused with the range error.
C9_BothReached ==
    /\ call.op = "withdraw"
    /\ call.amount > WITHDRAWAL_LIMIT
    /\ PreAccount.cash_balance < call.amount
    /\ call.outcome = "range"

\* what a successful buy of call.quantity shares of call.symbol leaves in the
\* account and the transaction stores
BuyApplied ==
    LET price == SIMULATED_PRICES[call.symbol]
        cost == price * call.quantity
    IN  /\ PostAccount.cash_balance = PreAccount.cash_balance - cost
        /\ PostAccount.total_deposits = PreAccount.total_deposits
        /\ PostAccount.total_withdrawals = PreAccount.total_withdrawals
        /\ funds_transactions = Pre.funds_transactions
        /\ Len(repo_transactions) = Len(Pre.repo_transactions) + 1
        /\ SubSeq(repo_transactions, 1, Len(Pre.repo_transactions))
              = Pre.repo_transactions
        /\ LET txn == repo_transactions[Len(repo_transactions)]
           IN  /\ txn.account_id = call.account
               /\ txn.transaction_type = "BUY"
               /\ txn.status = "COMPLETED"
               /\ txn.symbol = Some(call.symbol)
               /\ txn.quantity = Some(call.quantity)
               /\ txn.price_per_share = Some(price)
               /\ txn.total_amount = cost

\* C10 as stated: buy_shares(symbol, q) on a supported symbol succeeds exactly
\* when price * q <= cash_balance; then cash_balance drops by price * q and one
\* COMPLETED BUY transaction with the symbol, q, the price and total_amount =
\* price * q is appended; otherwise it fails for insufficient funds.
C10_Original ==
    call.op = "buy_shares" /\ call.symbol \in SUPPORTED_SYMBOLS =>
        LET affordable == SIMULATED_PRICES[call.symbol] * call.quantity
                              <= PreAccount.cash_balance
        IN  /\ (call.outcome = "ok") <=> affordable
            /\ call.outcome = "ok" => BuyApplied
            /\ ~affordable => call.outcome = "insufficient_funds"

\* C10 amended: the same for a supported symbol and a quantity q >= 1.
C10_BuyEffect ==
    call.op = "buy_shares" /\ call.symbol \in SUPPORTED_SYMBOLS
    /\ call.quantity >= 1 =>
        LET affordable == SIMULATED_PRICES[call.symbol] * call.quantity
                              <= PreAccount.cash_balance
        IN  /\ (call.outcome = "ok") <=> affordable
            /\ call.outcome = "ok" => BuyApplied
            /\ ~affordable =>
                  /\ call.outcome = "insufficient_funds"
                  /\ LedgerUntouched

\* C10 witness: a buy whose cost equals the balance is accepted and leaves 0.
C10_Witness ==
    /\ call.op = "buy_shares"
    /\ call.outcome = "ok"
    /\ call.quantity >= 1
    /\ SIMULATED_PRICES[call.symbol] * call.quantity = PreAccount.cash_balance
    /\ PostAccount.cash_balance = 0

\* C10 second case reached: a buy that costs more than a positive balance is
\* refused for insufficient funds.
C10_RejectReached ==
    /\ call.op = "buy_shares"
    /\ call.outcome = "insufficient_funds"
    /\ call.quantity >= 1
    /\ PreAccount.cash_balance > 0

\* C11: a successful sell_shares(symbol, q) adds exactly price * q to
\* cash_balance, takes q off the holding's quantity, leaves its avg_cost_basis
\* as it was, removes the holding from the store when the quantity reaches 0
\* and appends exactly one COMPLETED SELL transaction.
C11_SellEffect ==
    call.op = "sell_shares" /\ call.outcome = "ok" =>
        LET price == SIMULATED_PRICES[call.symbol]
            old == find_by_symbol(Pre.holdings, call.account, call.symbol)
            new == find_by_symbol(holdings, call.account, call.symbol)
        IN  /\ PostAccount.cash_balance
                  = PreAccount.cash_balance + price * call.quantity
            /\ PostAccount.total_deposits = PreAccount.total_deposits
            /\ PostAccount.total_withdrawals = PreAccount.total_withdrawals
            /\ old # None
            /\ IF old[1].quantity - call.quantity = 0
               THEN new = None
               ELSE /\ new # None
                    /\ new[1].quantity = old[1].quantity - call.quantity
                    /\ new[1].avg_cost_basis = old[1].avg_cost_basis
            /\ funds_transactions = Pre.funds_transactions
            /\ Len(repo_transactions) = Len(Pre.repo_transactions) + 1
            /\ SubSeq(repo_transactions, 1, Len(Pre.repo_transactions))
                  = Pre.repo_transactions
            /\ LET txn == repo_transactions[Len(repo_transactions)]
               IN  /\ txn.account_id = call.account
                   /\ txn.transaction_type = "SELL"
                   /\ txn.status = "COMPLETED"
                   /\ txn.symbol = Some(call.symbol)
                   /\ txn.quantity = Some(call.quantity)
                   /\ txn.total_amount = price * call.quantity

\* C11 witness: a sale of part of a holding, which stays in the store.
C11_Witness ==
    /\ call.op = "sell_shares"
    /\ call.outcome = "ok"
    /\ find_by_symbol(holdings, call.account, call.symbol) # None
    /\ HeldQuantity(holdings, call.account, call.symbol)
          < HeldQuantity(Pre.holdings, call.account, call.symbol)

\* TRUE when the call sold more than the account held before it, a missing
\* holding included
SoldMoreThanHeld ==
    LET old == find_by_symbol(Pre.holdings, call.account, call.symbol)
    IN  old = None \/ old[1].quantity < call.quantity

\* C12 as stated: sell_shares(symbol, q) fails with the insufficient-shares
\* error whenever the account has no holding of the symbol or holds fewer
\* than q, and the balance, the holdings and the transactions are unchanged.
C12_Original ==
    call.op = "sell_shares" /\ SoldMoreThanHeld =>
        call.outcome = "insufficient_shares" /\ LedgerUntouched

\* C12: sell_shares(symbol, q) on a supported symbol fails with the
\* insufficient-shares error when the account has no holding of the symbol or
\* the holding's quantity is less than q, and then cash_balance, the holdings
\* store and the transaction stores are unchanged.
C12_SellRejected ==
    /\ call.op = "sell_shares"
    /\ call.symbol \in SUPPORTED_SYMBOLS
    /\ SoldMoreThanHeld
    => call.outcome = "insufficient_shares" /\ LedgerUntouched

\* C12 witness: a sale of more shares than an existing holding has.
C12_Witness ==
    /\ call.op = "sell_shares"
    /\ call.outcome = "insufficient_shares"
    /\ find_by_symbol(Pre.holdings, call.account, call.symbol) # None

\* C12: the sale of a symbol that was never held is rejected as well.
C12_NoHoldingReached ==
    /\ call.op = "sell_shares"
    /\ call.outcome = "insufficient_shares"
    /\ find_by_symbol(Pre.holdings, call.account, call.symbol) = None

\* C13: buy_shares or sell_shares on a symbol outside the supported set fails
\* with the validation error before any price lookup or mutation: cash_balance,
\* the holdings store, the transaction stores and the price cache are unchanged.
C13_UnsupportedSymbol ==
    IsTradeCall /\ call.symbol \notin SUPPORTED_SYMBOLS =>
        /\ call.outcome = "unsupported_symbol"
        /\ LedgerUntouched
        /\ cache = Pre.cache

\* C13 witness: a sale of an unsupported symbol, refused while the account
\* holds shares and the cache has an entry.
C13_Witness ==
    /\ call.op = "sell_shares"
    /\ call.symbol \notin SUPPORTED_SYMBOLS
    /\ call.outcome = "unsupported_symbol"
    /\ get_all(holdings, call.account) # {}
    /\ DOMAIN cache # {}

\* C13: a purchase of an unsupported symbol is refused as well.
C13_BuyReached ==
    /\ call.op = "buy_shares"
    /\ call.symbol \notin SUPPORTED_SYMBOLS
    /\ call.outcome = "unsupported_symbol"
    /\ PostAccount.cash_balance > 0

\* TRUE when the last call left every balance, every account's holdings and
\* both transaction stores as they were; an empty per-account dictionary that
\* HoldingsRepository.save creates is not a change of the holdings
LedgerUnchanged ==
    /\ accounts = Pre.accounts
    /\ \A a \in DOMAIN accounts : get_all(holdings, a) = get_all(Pre.holdings, a)
    /\ funds_transactions = Pre.funds_transactions
    /\ repo_transactions = Pre.repo_transactions

\* C14: a buy_shares or sell_shares call that ends in an error, whatever the
\* symbol and the integer quantity, leaves cash_balance, the holdings store
\* and the transaction stores as they were before the call.
C14_FailedTradeUntouched ==
    IsTradeCall /\ call.outcome # "ok" => LedgerUnchanged

\* C15: when the construction of the transaction fails after the balance and
\* holding mutation of an operation, the mutation is undone before the error
\* reaches the caller: no mutation is left without its transaction record.
C15_MutationUndone ==
    call.outcome = "TransactionException" => LedgerUnchanged

\* TRUE when old is a prefix of new: nothing stored was changed or removed
IsPrefix(old, new) ==
    /\ Len(old) <= Len(new)
    /\ SubSeq(new, 1, Len(old)) = old

\* C16: every successful deposit, withdraw, buy_shares or sell_shares adds
\* exactly one record, to the store of its service; every failed call adds
\* none; no call changes or removes a stored record; no record is stored twice;
\* and the number of records equals the number of successful operations.
C16_RecordedOnce ==
    /\ IsPrefix(Pre.funds_transactions, funds_transactions)
    /\ IsPrefix(Pre.repo_transactions, repo_transactions)
    /\ Len(funds_transactions)
          = Len(Pre.funds_transactions)
              + (IF IsFundsCall /\ call.outcome = "ok" THEN 1 ELSE 0)
    /\ Len(repo_transactions)
          = Len(Pre.repo_transactions)
              + (IF IsTradeCall /\ call.outcome = "ok" THEN 1 ELSE 0)
    /\ Cardinality(AllIds(Ledger))
          = Len(funds_transactions) + Len(repo_transactions)
    /\ Len(funds_transactions) + Len(repo_transactions) = nok

\* C16 witness: a rejected call after successful calls of both services, with
\* a record in each store.
C16_Witness ==
    /\ call.op \in {"deposit", "withdraw", "buy_shares", "sell_shares"}
    /\ call.outcome # "ok"
    /\ Len(funds_transactions) >= 1
    /\ Len(repo_transactions) >= 1
    /\ nok >= 2

\* C17: within one executed buy_shares or sell_shares call the Price Oracle is
\* consulted exactly once: the one value it returned is the price of the
\* recorded transaction, and nothing is fetched again between validation and
\* execution.
C17_SinglePriceLookup ==
    IsTradeCall /\ call.outcome = "ok" =>
        /\ Len(call.price_lookups) = 1
        /\ repo_transactions[Len(repo_transactions)].price_per_share
              = Some(call.price_lookups[1])

\* TRUE when the cache the last call started from held an entry of its symbol
\* younger than the TTL at the time of the call
EntryWasFresh ==
    /\ call.symbol \in DOMAIN Pre.cache
    /\ call.at - Pre.cache[call.symbol].timestamp < PRICE_CACHE_TTL_MINUTES

\* C18: get_price on a supported symbol whose cache entry is younger than the
\* TTL returns the cached value and leaves the cache, the entry's value and
\* timestamp included, unchanged; with no entry, or an entry whose age is at
\* least the TTL, it fetches the price from the source, stores it with the
\* current time as timestamp, leaves the other entries alone and returns it.
C18_CacheHitOrRefetch ==
    call.op = "get_price" /\ call.symbol \in SUPPORTED_SYMBOLS =>
        /\ call.outcome = "ok"
        /\ IF EntryWasFresh
           THEN /\ call.ret = Some(Pre.cache[call.symbol].price)
                /\ cache = Pre.cache
           ELSE /\ call.ret = Some(SIMULATED_PRICES[call.symbol])
                /\ DOMAIN cache = DOMAIN Pre.cache \cup {call.symbol}
                /\ cache[call.symbol]
                      = [price |-> SIMULATED_PRICES[call.symbol],
                         timestamp |-> call.at]
                /\ \A s \in DOMAIN Pre.cache \ {call.symbol} :
                      cache[s] = Pre.cache[s]

\* C18 witness: a lookup served from an entry that is older than the call but
\* younger than the TTL; the entry keeps its timestamp.
C18_Witness ==
    /\ call.op = "get_price"
    /\ call.outcome = "ok"
    /\ EntryWasFresh
    /\ cache[call.symbol].timestamp < call.at

\* C18: a lookup that finds an entry whose age is exactly the TTL and stamps it anew.
C18_ExpiredReached ==
    /\ call.op = "get_price"
    /\ call.outcome = "ok"
    /\ call.symbol \in DOMAIN Pre.cache
    /\ call.at - Pre.cache[call.symbol].timestamp = PRICE_CACHE_TTL_MINUTES
    /\ cache[call.symbol].timestamp = call.at

\* C19: get_price on a symbol outside the supported set fails with the
\* unsupported-symbol error and neither creates nor changes a cache entry;
\* every key of the cache is a supported symbol.
C19_UnsupportedLookup ==
    /\ call.op = "get_price" /\ call.symbol \notin SUPPORTED_SYMBOLS =>
          /\ call.outcome = "unsupported_symbol"
          /\ call.ret = None
          /\ cache = Pre.cache
    /\ DOMAIN cache \subseteq SUPPORTED_SYMBOLS

\* C19 witness: a refused lookup of an unsupported symbol while the cache
\* holds entries.
C19_Witness ==
    /\ call.op = "get_price"
    /\ call.symbol \notin SUPPORTED_SYMBOLS
    /\ call.outcome = "unsupported_symbol"
    /\ DOMAIN cache # {}

\* the records of both stores that belong to the account
RecordsOf(a) ==
    {funds_transactions[i] : i \in {j \in DOMAIN funds_transactions :
                                       funds_transactions[j].account_id = a}}
    \cup {repo_transactions[i] : i \in {j \in DOMAIN repo_transactions :
                                           repo_transactions[j].account_id = a}}

\* C20: the transaction history of an account contains every transaction the
\* funds service and the trading service recorded for it, each once, contains
\* no transaction of another account, and is ordered newest first: the
\* timestamps are non-increasing along the list.
C20_History ==
    \A a \in DOMAIN accounts :
        LET history == get_transaction_history(Ledger, a)
        IN  /\ {history[i] : i \in DOMAIN history} = RecordsOf(a)
            /\ Len(history) = Cardinality(RecordsOf(a))
            /\ \A i \in DOMAIN history : history[i].account_id = a
            /\ \A i \in 1..(Len(history) - 1) :
                  history[i].transaction_timestamp
                      >= history[i + 1].transaction_timestamp

\* C20 witness: an account whose history holds records of both services in
\* another order than the stores list them, while another account has records
\* of its own.
C20_Witness ==
    \E a, b \in DOMAIN accounts :
        LET history == get_transaction_history(Ledger, a)
        IN  /\ a # b
            /\ RecordsOf(b) # {}
            /\ \E i, j \in DOMAIN history :
                  /\ history[i].transaction_type \in {"DEPOSIT", "WITHDRAWAL"}
                  /\ history[j].transaction_type \in {"BUY", "SELL"}
            /\ history # funds_history(Ledger, a)
                              \o get_by_account(repo_transactions, a)

\* C21: after a purchase of q >= 1 shares of a symbol the account did not
\* hold, selling q shares of that symbol at the unchanged price succeeds,
\* returns cash_balance to its value before the purchase and leaves no holding
\* of the symbol in the store.
C21_RoundTrip ==
    /\ call.op = "buy_shares"
    /\ call.outcome = "ok"
    /\ call.quantity >= 1
    /\ find_by_symbol(Pre.holdings, call.account, call.symbol) = None
    => LET sold == sell_shares_result(Ledger, call.account, call.symbol,
                                      call.quantity, now)
       IN  /\ sold.outcome = "ok"
           /\ sold.ledger.accounts[call.account].cash_balance
                 = PreAccount.cash_balance
           /\ find_by_symbol(sold.ledger.holdings, call.account, call.symbol)
                 = None

\* C21 witness: a first purchase of two shares has just been made, with cash
\* left over.
C21_Witness ==
    /\ call.op = "buy_shares"
    /\ call.outcome = "ok"
    /\ call.quantity = 2
    /\ find_by_symbol(Pre.holdings, call.account, call.symbol) = None
    /\ PostAccount.cash_balance > 0

\* C21: the sale of the shares of the purchase recorded just before it has
\* been made and the holding is gone.
C21_SoldBackReached ==
    /\ call.op = "sell_shares"
    /\ call.outcome = "ok"
    /\ Len(Pre.repo_transactions) >= 1
    /\ LET bought == Pre.repo_transactions[Len(Pre.repo_transactions)]
       IN  /\ bought.transaction_type = "BUY"
           /\ bought.transaction_id = Pre.next_id - 1
           /\ bought.symbol = Some(call.symbol)
           /\ bought.quantity = Some(call.quantity)
    /\ find_by_symbol(holdings, call.account, call.symbol) = None

\* C22: get_holdings and get_transaction_history change no account, holding,
\* transaction or cache state, and a second call made with no mutating
\* operation in between returns what the first call returned.
C22_ReadsIdempotent ==
    /\ call.op = "get_holdings" =>
          LET again == get_holdings_result(Ledger, call.account)
          IN  /\ LedgerUntouched
              /\ cache = Pre.cache
              /\ call.outcome = "ok"
              /\ again.ret = call.ret
              /\ again.ledger = Ledger
    /\ call.op = "get_transaction_history" =>
          LET again == get_transaction_history_result(Ledger, call.account)
          IN  /\ LedgerUntouched
              /\ cache = Pre.cache
              /\ call.outcome = "ok"
              /\ again.ret = call.ret
              /\ again.ledger = Ledger

\* C22 witness: a history read that returned records of both services in
\* another order than the stores list them.
C22_Witness ==
    /\ call.op = "get_transaction_history"
    /\ Len(call.ret[1]) >= 3
    /\ Len(repo_transactions) >= 2
    /\ call.ret[1] # funds_history(Ledger, call.account)
                        \o get_by_account(repo_transactions, call.account)

\* C22: a holdings read that returned two holdings.
C22_HoldingsReached ==
    /\ call.op = "get_holdings"
    /\ Cardinality(call.ret[1]) = 2

\* the list of holdings the valuator of the last call was given
HeldList == given_holdings(Pre, call.account, call.symbol)

\* C23: cash value, holding value, total value, the holding value breakdown,
\* net deposits and total P&L never change the account's balance or totals,
\* a holding, the holdings store or the transaction stores.
C23_ValuationFrame ==
    call.op \in ValuationOperations =>
        /\ call.outcome = "ok"
        /\ LedgerUntouched
        /\ next_id = Pre.next_id

\* C23 witness: a total P&L computed over two holdings after a withdrawal,
\* whose price lookups filled the cache.
C23_Witness ==
    /\ call.op = "calculate_total_pnl"
    /\ Cardinality(get_all(holdings, call.account)) = 2
    /\ cache # Pre.cache

\* the sum of quantity * price over the holdings of the list whose symbol the
\* Price Oracle supports
RECURSIVE PricedSum(_)
PricedSum(held) ==
    IF held = <<>> THEN 0
    ELSE (IF held[1].symbol \in SUPPORTED_SYMBOLS
          THEN held[1].quantity * SIMULATED_PRICES[held[1].symbol] ELSE 0)
         + PricedSum(Tail(held))

\* C24: holding_value() is the sum of quantity * current price over exactly
\* the holdings whose price lookup succeeds, a failed lookup neither ending
\* the valuation nor changing what the other holdings contribute; the
\* breakdown has exactly the symbols whose lookup succeeded; and
\* total_value() = cash_balance + holding_value().
C24_HoldingValue ==
    /\ call.op = "calculate_holding_value" =>
          call.outcome = "ok" /\ call.ret = Some(PricedSum(HeldList))
    /\ call.op = "get_all_holding_values" =>
          /\ call.outcome = "ok"
          /\ DOMAIN call.ret[1]
                = {HeldList[i].symbol : i \in DOMAIN HeldList}
                      \cap SUPPORTED_SYMBOLS
          /\ \A s \in DOMAIN call.ret[1] :
                \E i \in DOMAIN HeldList :
                    /\ HeldList[i].symbol = s
                    /\ call.ret[1][s]
                          = HeldList[i].quantity * SIMULATED_PRICES[s]
    /\ call.op = "calculate_total_value" =>
          /\ call.outcome = "ok"
          /\ call.ret = Some(PreAccount.cash_balance + PricedSum(HeldList))

\* C24 witness: the holding value of a list that starts with a holding whose
\* lookup fails and goes on with two holdings of the store.
C24_Witness ==
    /\ call.op = "calculate_holding_value"
    /\ call.symbol \notin SUPPORTED_SYMBOLS
    /\ call.symbol # ""
    /\ Len(HeldList) = 3
    /\ call.ret[1] > 0

\* C24: a breakdown that leaves out the symbol whose lookup failed.
C24_BreakdownReached ==
    /\ call.op = "get_all_holding_values"
    /\ call.symbol \notin SUPPORTED_SYMBOLS
    /\ call.symbol # ""
    /\ Cardinality(DOMAIN call.ret[1]) = 2

\* C25: net_deposits() = total_deposits - total_withdrawals and
\* total_pnl() = cash_balance + holding_value()
\*               - (total_deposits - total_withdrawals).
C25_ProfitAndLoss ==
    /\ call.op = "calculate_cumulative_net_deposits" =>
          call.ret = Some(PreAccount.total_deposits
                              - PreAccount.total_withdrawals)
    /\ call.op = "calculate_total_pnl" =>
          call.ret = Some(PreAccount.cash_balance
                              + calculate_holding_value(HeldList, Pre.cache,
                                                        call.at).value
                              - (PreAccount.total_deposits
                                     - PreAccount.total_withdrawals))

\* C25 witness: a total P&L of an account that has withdrawn cash and holds
\* a share.
C25_Witness ==
    /\ call.op = "calculate_total_pnl"
    /\ call.symbol = ""
    /\ PreAccount.total_withdrawals > 0
    /\ get_all(holdings, call.account) # {}

\* TRUE when the fields break a rule of the Transaction payload
InvalidPayload(p) ==
    \/ p.total_amount <= 0
    \/ p.transaction_type \in {"BUY", "SELL"} /\ p.symbol = None
    \/ p.transaction_type \in {"BUY", "SELL"} /\ p.quantity = None

\* C26: no Transaction with an invalid payload is constructed, whatever its
\* status: the constructor and create_failed_transaction raise when
\* total_amount <= 0 and when a BUY or SELL lacks its symbol or its quantity,
\* and every object that exists has a valid payload.
C26_NoInvalidTransaction ==
    \A i \in DOMAIN objects :
        /\ objects[i].via \in {"Transaction", "create_failed_transaction"}
              => (InvalidPayload(objects[i].input) <=> objects[i].txn = None)
        /\ objects[i].txn # None => ~InvalidPayload(objects[i].txn[1])

\* C26 witness: create_failed_transaction has raised on a BUY without symbol
\* and has returned a FAILED record for a valid payload.
C26_Witness ==
    /\ \E i \in DOMAIN objects :
          /\ objects[i].via = "create_failed_transaction"
          /\ objects[i].input.transaction_type = "BUY"
          /\ objects[i].input.symbol = None
          /\ objects[i].txn = None
    /\ \E i \in DOMAIN objects :
          /\ objects[i].via = "create_failed_transaction"
          /\ objects[i].txn # None
          /\ objects[i].txn[1].status = "FAILED"

\* C27: mark_as_completed and mark_as_failed leave the record they are called
\* on as it was and return a record whose transaction identifier, account,
\* kind, amount, timestamp, symbol, quantity and price per share are those of
\* the original.
C27_DerivedKeepsFields ==
    \A i \in DOMAIN objects :
        objects[i].from # 0 /\ objects[i].txn # None =>
            LET original == objects[objects[i].from].txn[1]
                derived == objects[i].txn[1]
            IN  /\ original = objects[i].input
                /\ derived.transaction_id = original.transaction_id
                /\ derived.account_id = original.account_id
                /\ derived.transaction_type = original.transaction_type
                /\ derived.total_amount = original.total_amount
                /\ derived.transaction_timestamp = original.transaction_timestamp
                /\ derived.symbol = original.symbol
                /\ derived.quantity = original.quantity
                /\ derived.price_per_share = original.price_per_share

\* C28: only PENDING -> COMPLETED and PENDING -> FAILED happen: no
\* mark_as_completed or mark_as_failed call on a COMPLETED or FAILED record
\* returns a record with another status.
C28_TerminalStatus ==
    \A i \in DOMAIN objects :
        objects[i].from # 0 /\ objects[i].txn # None =>
            LET original == objects[objects[i].from].txn[1]
                derived == objects[i].txn[1]
            IN  original.status \in {"COMPLETED", "FAILED"}
                    => derived.status = original.status

\* C29: deposit, withdraw, buy_shares and sell_shares on one account are
\* serialized: no two calls on the same account are in flight together, a
\* second call cannot run its validation before the first has recorded.
C29_Serialized ==
    \A t, u \in Busy :
        t # u => in_flight[t][1].account # in_flight[u][1].account

\* C30: a deposit, withdraw, buy_shares or sell_shares on one account,
\* accepted or rejected, leaves the cash_balance, the totals, the holdings and
\* the transaction history of every other account as they were, however the
\* calls on the accounts interleave.
C30_AccountsIndependent ==
    call.op \in {"deposit", "withdraw", "buy_shares", "sell_shares"} =>
        \A b \in DOMAIN accounts \ {call.account} :
            /\ accounts[b] = Pre.accounts[b]
            /\ get_all(holdings, b) = get_all(Pre.holdings, b)
            /\ get_transaction_history(Ledger, b)
                  = get_transaction_history(Pre, b)

\* C30 witness: a purchase on one account has been executed while a call on
\* the other account is in flight.
C30_Witness ==
    /\ call.op = "buy_shares"
    /\ call.outcome = "ok"
    /\ \E t \in Busy : in_flight[t][1].account # call.account

\* C30: a call on one account has been executed while the other account,
\* which has cash and a record, has a call of its own in flight.
C30_OtherInFlightReached ==
    /\ call.op \in {"deposit", "withdraw", "buy_shares", "sell_shares"}
    /\ call.outcome = "ok"
    /\ \E t \in Busy :
          LET b == in_flight[t][1].account
          IN  /\ b # call.account
              /\ accounts[b].cash_balance > 0
              /\ get_transaction_history(Ledger, b) # <<>>

\* C30: a purchase of -1 shares, which fails after it has credited its own
\* account, while the other account has cash.
C30_FailedCallReached ==
    /\ call.op = "buy_shares"
    /\ call.outcome # "ok"
    /\ accounts # Pre.accounts
    /\ \E b \in DOMAIN accounts \ {call.account} : accounts[b].cash_balance > 0


----------------------------------------------------------------------------
(* Account.update_balance called on the account object itself, next to     *)
(* deposits of one share price                                             *)

BalanceChanges == {-14500, -100, 100}

\* Account.update_balance(amount) as a call: ValueError, or the assignment
update_balance_result(l, a, amount) ==
    IF ~update_balance_ok(l.accounts[a], amount)
    THEN Result(l, "ValueError", None)
    ELSE Result([l EXCEPT !.accounts[a] = update_balance(@, amount)], "ok", None)

\* account.update_balance(amount), amount drawn from amounts
UpdateBalance(amounts) ==
    /\ nmut < MaxMutations
    /\ \E a \in DOMAIN accounts, amount \in amounts :
          LET r == update_balance_result(Ledger, a, amount)
          IN  /\ Record("update_balance", a, amount, "", 0, r)
              /\ nmut' = IF LedgerChanged(r.ledger) THEN nmut + 1 ELSE nmut
    /\ UNCHANGED <<nok, objects, in_flight>>

NextAccount ==
    \/ CreateUser(AccountIdSeq)
    \/ Deposit(SharePrices)
    \/ UpdateBalance(BalanceChanges)
    \/ Advance(TickSteps)

SpecAccount == Init /\ [][NextAccount]_vars

\* C31: update_balance(amount) sets cash_balance to cash_balance + amount when
\* that sum is >= 0, a sum of exactly 0 included, and changes nothing else;
\* when the sum is negative it raises an error and leaves cash_balance (and the
\* whole ledger) as it was.
C31_UpdateBalance ==
    call.op = "update_balance" =>
        LET new_balance == PreAccount.cash_balance + call.amount
        IN  IF new_balance >= 0
            THEN /\ call.outcome = "ok"
                 /\ PostAccount = [PreAccount EXCEPT !.cash_balance = new_balance]
            ELSE /\ call.outcome = "ValueError"
                 /\ PostAccount.cash_balance = PreAccount.cash_balance
                 /\ LedgerUntouched

\* C31 witness: an update that brings a positive balance to exactly zero is
\* accepted
C31_Witness ==
    /\ call.op = "update_balance"
    /\ call.outcome = "ok"
    /\ PreAccount.cash_balance > 0
    /\ PostAccount.cash_balance = 0

\* an update below zero is refused on an account that holds cash
C31_RefusedReached ==
    /\ call.op = "update_balance"
    /\ call.outcome = "ValueError"
    /\ PreAccount.cash_balance > 0
    /\ call.amount < 0


\* C32: the account create_user makes has cash_balance = 0, total_deposits = 0
\* and total_withdrawals = 0, passes the validity check, holds nothing and has
\* an empty transaction history.
C32_NewAccount ==
    (call.op = "create_user" /\ call.outcome = "ok") =>
        /\ call.account \in DOMAIN accounts
        /\ call.account \notin DOMAIN Pre.accounts
        /\ PostAccount.account_id = call.account
        /\ PostAccount.cash_balance = 0
        /\ PostAccount.total_deposits = 0
        /\ PostAccount.total_withdrawals = 0
        /\ validate_account(PostAccount)
        /\ get_all(holdings, call.account) = {}
        /\ get_transaction_history(Ledger, call.account) = <<>>

\* C32 witness: a second account is created when the first one already holds
\* cash, a holding and recorded transactions
C32_Witness ==
    /\ call.op = "create_user"
    /\ call.outcome = "ok"
    /\ \E b \in DOMAIN Pre.accounts :
          /\ accounts[b].cash_balance > 0
          /\ get_all(holdings, b) # {}
          /\ get_transaction_history(Ledger, b) # <<>>


\* the last call run in one piece on the ledger it started from
SerialCall ==
    CASE call.op = "deposit" ->
             deposit_result(Pre, call.account, call.amount, call.at)
      [] call.op = "withdraw" ->
             withdraw_result(Pre, call.account, call.amount, call.at)
      [] call.op = "buy_shares" ->
             buy_shares_result(Pre, call.account, call.symbol, call.quantity,
                               call.at)
      [] call.op = "sell_shares" ->
             sell_shares_result(Pre, call.account, call.symbol, call.quantity,
                                call.at)

\* C33: when calls on one account interleave between their validation and
\* their execution, the outcome is that of a serial order: no cash_balance is
\* ever negative, and every call leaves the accounts, the holdings and the
\* records as the same call run in one piece at the point where it took
\* effect.
C33_EqualsSerialOrder ==
    /\ \A a \in DOMAIN accounts : accounts[a].cash_balance >= 0
    /\ call.op \in {"deposit", "withdraw", "buy_shares", "sell_shares"} =>
          /\ accounts = SerialCall.ledger.accounts
          /\ holdings = SerialCall.ledger.holdings
          /\ funds_transactions = SerialCall.ledger.funds_transactions
          /\ repo_transactions = SerialCall.ledger.repo_transactions


\* the records of both stores
StoredRecords ==
    {funds_transactions[i] : i \in DOMAIN funds_transactions}
    \cup {repo_transactions[i] : i \in DOMAIN repo_transactions}

\* the last call as a request of the funds or trading service
CallRequest ==
    [op |-> call.op, amount |-> call.amount, symbol |-> call.symbol,
     quantity |-> call.quantity]

\* C34: every record in the funds service's transaction list and in the
\* transaction repository has status COMPLETED and no failure reason, and a
\* call that its validation rejects adds no record to either store.
C34_OnlyCompletedRecords ==
    /\ \A txn \in StoredRecords :
          txn.status = "COMPLETED" /\ txn.failure_reason = None
    /\ ((IsFundsCall \/ IsTradeCall)
           /\ validate_call(Pre, call.account, CallRequest, call.at).outcome # "ok")
          => /\ call.outcome # "ok"
             /\ funds_transactions = Pre.funds_transactions
             /\ repo_transactions = Pre.repo_transactions

\* C34 witness: both stores hold a record, and the last call was rejected by
\* its validation
C34_Witness ==
    /\ funds_transactions # <<>>
    /\ repo_transactions # <<>>
    /\ IsFundsCall \/ IsTradeCall
    /\ validate_call(Pre, call.account, CallRequest, call.at).outcome # "ok"


----------------------------------------------------------------------------
(* Two threads calling get_price of the one PriceService.  A lookup that   *)
(* misses the cache can be preempted between reading the price from the    *)
(* source and writing the cache entry                                      *)

\* PriceService.get_price up to the read of the source in _fetch_price: the
\* call ends with the unsupported-symbol error or a cache hit, or is in flight
\* with the fetched price (kept in the amount field of the request)
BeginGetPrice(symbols) ==
    \E t \in Threads \ Busy, symbol \in symbols :
        IF ~is_supported_symbol(symbol) \/ cache_hit(cache, symbol, now)
        THEN /\ Record("get_price", "", 0, symbol, 0,
                       get_price_result(Ledger, symbol, now))
             /\ UNCHANGED <<nmut, nok, objects, in_flight>>
        ELSE /\ in_flight' = [in_flight EXCEPT ![t] =
                  Some([account |-> "",
                        request |-> [op |-> "get_price",
                                     amount |-> fetch_price(cache, symbol, now).price,
                                     symbol |-> symbol, quantity |-> 0]])]
             /\ UNCHANGED <<accounts, holdings, funds_transactions,
                            repo_transactions, cache, next_id, now, call, nmut,
                            nok, objects, session>>

\* PriceService._fetch_price from the call of _update_cache on: the entry is
\* written with the time of the write and the fetched price returned
FinishGetPrice ==
    \E t \in Busy :
        LET q == in_flight[t][1].request
        IN  /\ q.op = "get_price"
            /\ Record("get_price", "", 0, q.symbol, 0,
                      Result([Ledger EXCEPT
                                 !.cache = update_cache(@, q.symbol, q.amount, now),
                                 !.price_lookups = Append(@, q.amount)],
                             "ok", Some(q.amount)))
            /\ in_flight' = [in_flight EXCEPT ![t] = None]
            /\ UNCHANGED <<nmut, nok, objects>>

NextPriceThreads ==
    \/ BeginGetPrice(InputSymbols)
    \/ FinishGetPrice
    \/ Advance(MinuteSteps)

SpecPriceThreads == Init /\ [][NextPriceThreads]_vars

\* the cache with the entries of all symbols but symbol removed
OwnEntry(c, symbol) == [s \in DOMAIN c \cap {symbol} |-> c[s]]

\* C35: a get_price(s) that refreshes the cache changes the entry of s only:
\* value and timestamp of every other symbol's entry stay as they were; and
\* a get_price(t), whatever refreshes of other symbols run next to it, returns
\* the value it returns from the entry of t alone.
C35_RefreshIsLocal ==
    (call.op = "get_price" /\ call.outcome = "ok") =>
        /\ DOMAIN cache = DOMAIN Pre.cache \cup {call.symbol}
        /\ \A t \in DOMAIN Pre.cache \ {call.symbol} : cache[t] = Pre.cache[t]
        /\ call.ret = Some(get_price(OwnEntry(Pre.cache, call.symbol),
                                     call.symbol, call.at).price)

\* C35 witness: a refresh of one symbol is written while the cache holds an
\* older entry of another symbol and a lookup of that other symbol is
\* in flight
C35_Witness ==
    /\ call.op = "get_price"
    /\ call.outcome = "ok"
    /\ cache[call.symbol].timestamp = call.at
    /\ \E t \in DOMAIN Pre.cache \ {call.symbol} : cache[t].timestamp < call.at
    /\ \E t \in Busy : in_flight[t][1].request.symbol # call.symbol

\* a lookup served from the cache while the refresh of another symbol is in
\* flight
C35_HitBesideRefreshReached ==
    /\ call.op = "get_price"
    /\ call.outcome = "ok"
    /\ cache = Pre.cache
    /\ \E t \in Busy : in_flight[t][1].request.symbol # call.symbol


\* the sum of field over the records of txns that belong to account a, have
\* the given type and, for symbol # "", that symbol
RECURSIVE RecordedSum(_, _, _, _, _)
RecordedSum(txns, a, type, symbol, field) ==
    IF txns = <<>> THEN 0
    ELSE LET txn == Head(txns)
             counted == /\ txn.account_id = a
                        /\ txn.transaction_type = type
                        /\ symbol # "" => txn.symbol = Some(symbol)
             value == IF field = "quantity" THEN txn.quantity[1]
                      ELSE txn.total_amount
         IN  (IF counted THEN value ELSE 0)
             + RecordedSum(Tail(txns), a, type, symbol, field)

\* the sum of the amounts of the account's recorded transactions of a type
RecordedAmount(a, type) ==
    RecordedSum(funds_transactions \o repo_transactions, a, type, "",
                "total_amount")

\* the shares of symbol in the account's recorded transactions of a type
RecordedShares(a, type, symbol) ==
    RecordedSum(repo_transactions, a, type, symbol, "quantity")

\* C36: the ledger reconciles with its log after any sequence of deposit,
\* withdraw, buy_shares and sell_shares calls, successful or failing, with any
\* integer quantities: cash_balance = deposits - withdrawals - purchases +
\* sales, total_deposits and total_withdrawals are the sums of the DEPOSIT and
\* WITHDRAWAL amounts, and each held quantity is the shares bought minus the
\* shares sold, all summed over the account's recorded transactions.
C36_LedgerReconciles ==
    \A a \in DOMAIN accounts :
        /\ accounts[a].cash_balance
              = RecordedAmount(a, "DEPOSIT") - RecordedAmount(a, "WITHDRAWAL")
                - RecordedAmount(a, "BUY") + RecordedAmount(a, "SELL")
        /\ accounts[a].total_deposits = RecordedAmount(a, "DEPOSIT")
        /\ accounts[a].total_withdrawals = RecordedAmount(a, "WITHDRAWAL")
        /\ \A symbol \in SUPPORTED_SYMBOLS :
              HeldQuantity(holdings, a, symbol)
                 = RecordedShares(a, "BUY", symbol)
                   - RecordedShares(a, "SELL", symbol)


----------------------------------------------------------------------------
(* Profit and loss of an account whose calls trade one or two shares at    *)
(* the quoted price                                                        *)

PositiveQuantities == {1, 2}
ProfitOperations == {"calculate_total_pnl"}
OwnHoldings == {""}

NextProfit ==
    \/ CreateUser(AccountIdSeq)
    \/ Deposit(ValuedAmounts)
    \/ Withdraw(SharePrices)
    \/ BuyShares(ValuedSymbols, PositiveQuantities)
    \/ SellShares(ValuedSymbols, PositiveQuantities)
    \/ Advance(TickSteps)
    \/ Valuate(ProfitOperations, OwnHoldings)

SpecProfit == Init /\ [][NextProfit]_vars

\* C37: with prices unchanged and an account opened with zero balances,
\* total_pnl() is 0 after any sequence of deposits, withdrawals, purchases and
\* sales of quantities >= 1: in every state the profit-and-loss calculator of
\* every account computes 0, and every calculate_total_pnl call returns 0.
C37_NoProfitNoLoss ==
    /\ \A a \in DOMAIN accounts :
          calculate_total_pnl(accounts[a], valuator_holdings(Ledger, a),
                              cache, now).value = 0
    /\ call.op = "calculate_total_pnl" => call.ret = Some(0)

\* C37 witness: total_pnl() is called on an account that has deposited,
\* bought two shares and sold one of them, and holds cash and a share
C37_Witness ==
    /\ call.op = "calculate_total_pnl"
    /\ PostAccount.cash_balance > 0
    /\ \E symbol \in ValuedSymbols : HeldQuantity(holdings, call.account, symbol) = 1
    /\ RecordedAmount(call.account, "SELL") > 0

\* total_pnl() is called after a deposit, a purchase and a withdrawal
C37_WithdrawnReached ==
    /\ call.op = "calculate_total_pnl"
    /\ PostAccount.total_withdrawals > 0
    /\ get_all(holdings, call.account) # {}


----------------------------------------------------------------------------
(* The session of the AppState: users sign up, log in and log out, next to *)
(* deposits and purchases on the accounts                                  *)

SignupNames == {"alice", "bob"}
LoginNames == {"alice", "bob", "carol"}

\* AppState.create_user(username, email) with any username, taken or not
CreateUserNamed(usernames, ids) ==
    /\ \E username \in usernames :
          LET k == Cardinality(DOMAIN accounts) + 1
              taken == username \in DOMAIN session.users
          IN  /\ taken \/ k <= Len(ids)
              /\ Record("create_user", IF taken THEN "" ELSE ids[k], 0,
                        username, 0,
                        create_user_result(Ledger, username,
                                           IF taken THEN "" ELSE UserIdSeq[k],
                                           IF taken THEN "" ELSE ids[k]))
    /\ UNCHANGED <<nmut, nok, objects, in_flight>>

\* AppState.login_user(username)
LoginUser(usernames) ==
    /\ \E username \in usernames :
          Record("login_user", "", 0, username, 0,
                 login_user_result(Ledger, username))
    /\ UNCHANGED <<nmut, nok, objects, in_flight>>

\* AppState.logout_user()
LogoutUser ==
    /\ Record("logout_user", "", 0, "", 0, logout_user_result(Ledger))
    /\ UNCHANGED <<nmut, nok, objects, in_flight>>

\* AppState.get_trading_service()
GetTradingService ==
    /\ Record("get_trading_service", "", 0, "", 0,
              get_trading_service_result(Ledger))
    /\ UNCHANGED <<nmut, nok, objects, in_flight>>

\* AppState.get_holdings() of the session
GetCurrentHoldings ==
    /\ Record("get_holdings", "", 0, "", 0, current_holdings_result(Ledger))
    /\ UNCHANGED <<nmut, nok, objects, in_flight>>

\* AppState.get_transaction_history() of the session
GetCurrentTransactionHistory ==
    /\ Record("get_transaction_history", "", 0, "", 0,
              current_transaction_history_result(Ledger))
    /\ UNCHANGED <<nmut, nok, objects, in_flight>>

NextSession ==
    \/ CreateUserNamed(SignupNames, TwoAccountIds)
    \/ LoginUser(LoginNames)
    \/ LogoutUser
    \/ GetTradingService
    \/ GetCurrentHoldings
    \/ GetCurrentTransactionHistory
    \/ Deposit(SharePrices)
    \/ BuyShares(TradedSymbols, SingleShare)

SpecSession == Init /\ [][NextSession]_vars

\* C38: after any sequence of create_user, login_user and logout_user calls,
\* current_user and current_account are both unset or both set, and when set
\* current_account is the account created for current_user; login_user with
\* an unknown username returns False and leaves both as they were; while no
\* user is logged in get_trading_service returns nothing and get_holdings
\* and get_transaction_history return empty lists.
C38_SessionConsistent ==
    /\ (session.current_user = None) <=> (session.current_account = None)
    /\ session.current_user # None =>
          LET user == session.current_user[1]
          IN  /\ user.username \in DOMAIN session.users
              /\ session.users[user.username] = user
              /\ session.current_account
                    = Some(session.user_accounts[user.user_id])
              /\ session.current_account[1] \in DOMAIN accounts
    /\ (call.op = "create_user" /\ call.outcome = "ok") =>
          /\ session.user_accounts[call.ret[1].user_id] = call.account
          /\ session.current_user = Pre.session.current_user
          /\ session.current_account = Pre.session.current_account
    /\ (call.op = "login_user" /\ call.symbol \notin DOMAIN Pre.session.users) =>
          /\ call.ret = Some(FALSE)
          /\ session = Pre.session
    /\ (call.op = "login_user" /\ call.symbol \in DOMAIN Pre.session.users) =>
          /\ call.ret = Some(TRUE)
          /\ session.current_user = Some(session.users[call.symbol])
    /\ call.op = "logout_user" => session.current_user = None
    /\ Pre.session.current_account = None =>
          /\ call.op = "get_trading_service" => call.ret = None
          /\ call.op = "get_holdings" => call.ret = Some({})
          /\ call.op = "get_transaction_history" => call.ret = Some(<<>>)

\* C38 witness: the second user to sign up is logged in after another user
\* had been, and the current account is the second account
C38_Witness ==
    /\ call.op = "login_user"
    /\ call.ret = Some(TRUE)
    /\ Pre.session.current_user # None
    /\ Pre.session.current_user # session.current_user
    /\ session.current_account = Some(TwoAccountIds[2])

\* a login with a username nobody signed up with, while a user is logged in
C38_UnknownLoginReached ==
    /\ call.op = "login_user"
    /\ call.ret = Some(FALSE)
    /\ session.current_user # None

\* the holdings are asked for after a logout, while an account holds a share
C38_LoggedOutReadReached ==
    /\ call.op = "get_holdings"
    /\ session.current_account = None
    /\ \E a \in DOMAIN accounts : get_all(holdings, a) # {}

\* get_trading_service is called with nobody logged in, after a logout
C38_NoServiceReached ==
    /\ call.op = "get_trading_service"
    /\ call.ret = None
    /\ DOMAIN session.users # {}

\* create_user is refused for a username that is taken
C38_TakenNameReached ==
    /\ call.op = "create_user"
    /\ call.outcome = "ValueError"

===========================================================================
